---- MODULE Spec2Model ----
(***************************************************************************)
(* A model of the repository aggregator: the namespaced SQLite storage     *)
(* layer (fetch_repos/db.py), the aggregator (fetch_repos/aggregator.py),  *)
(* the rate-limited GitHub client (fetch_repos/github_client.py) and the   *)
(* orchestrator with its per-target namespaces (fetch_repos/main.py).      *)
(*                                                                         *)
(* Python's None / SQL NULL is the empty tuple None; a present value x is  *)
(* the one-element tuple Some(x).                                          *)
(***************************************************************************)
EXTENDS Integers, Sequences, FiniteSets, TLC

VARIABLES
    repositories,     \* repositories table: its set of rows
    languages,        \* languages table: <<repo_id, language>> -> bytes
    contributors,     \* contributors table: <<repo_id, login>> -> contributions
    commit_activity,  \* commit_activity table: <<repo_id, week_start>> -> total
    pull_requests,    \* pull_requests table: <<repo_id, number>> -> row
    aggregates,       \* aggregates table: rows in rowid order
    now,              \* the wall clock, in seconds
    lastOp,           \* history: the storage call made last
    latest,           \* history: repo_id -> the record of its latest upsert
    changed,          \* history: the repo_ids upserted again with changed fields
    aggCalls,         \* history: number of aggregate-writing calls made
    permits,          \* GitHubClient.semaphore: the permits left
    holder,           \* the requests inside `async with self.semaphore`
    pc,               \* request -> where it stands in _request_json / _paginate
    kind,             \* request -> "request" (_request_json) or "paginate"
    backoff,          \* request -> the local `backoff` of _request_json
    wake,             \* request -> the instant its asyncio.sleep ends
    page,             \* request -> the local `page` of _paginate
    items,            \* request -> the local `items` of _paginate
    served,           \* history: request -> the page bodies it was answered
    requested,        \* history: request -> the (page, per_page) it asked for
    retries,          \* history: request -> transient answers in this call
    rlUntil,          \* history: the latest rate-limit reset instant announced
    last,             \* history: the answer handled by the step just taken
    budget,           \* what the remote may still answer in this behaviour
    active,           \* request -> the kinds of call it may start in this behaviour
    observed,         \* whether this behaviour keeps the histories served and last
    undone,           \* history: rows the last bulk call wrote before it was rolled back
    fpc,              \* where fetch_and_store stands
    cfg,              \* its parameters: include_contributors, include_dora, skip_aggregates
    repoList,         \* its local `repos`
    task,             \* index into repos -> where that fetch_repo_extras coroutine stands
    extras,           \* index into repos -> the local `data` of that coroutine
    fetched,          \* history: index -> what the remote was asked and answered
    completed,        \* history: the indices in the order their coroutines returned
    results,          \* its local `results`
    targets,          \* account -> the target name (cfg.target) its cycles run with
    dbfile,           \* namespace -> the tables of that namespace in the database file
    ran               \* history: the cycles run so far, with what each one counted

storageVars == <<repositories, languages, contributors, commit_activity,
                 pull_requests, aggregates, lastOp, latest, changed, aggCalls,
                 undone>>

clientVars == <<permits, holder, pc, kind, backoff, wake, page, items, served,
                requested, retries, rlUntil, last, budget, active, observed>>

\* The state of the orchestrator (main.py).
nsVars == <<targets, dbfile, ran>>
moreVars == <<fpc, cfg, repoList, task, extras, fetched, completed, results, nsVars>>

None == <<>>
Some(x) == <<x>>
IsNone(v) == v = None
Val(v) == v[1]

\* ------------------------------------------------------------------ bounds
\* Largest number of records in one upsert_repositories batch.
MaxBatch == 2
\* Largest number of aggregate-writing calls in one behaviour.
MaxAggregateCalls == 2
\* The configured concurrency cap (Config.concurrency) and the number of
\* logical requests that run concurrently against one client.
Concurrency == 2
NumTasks == 3
\* Answers that keep a request going (transient errors, rate-limit refusals,
\* non-empty pages) the remote may give to the concurrent requests, in total.
ClientAnswers == 1
\* Rate-limit refusals and transient errors answered to one request followed on
\* its own, and non-empty pages served to one pagination followed on its own.
MaxRateLimits == 1
MaxRetries == 7
MaxPages == 3
\* How far in the future a rate-limit reset lies, in seconds.
RateLimitWindow == 2

\* ------------------------------------------------------- inputs (JSON data)
\* Full names in ascending collation order (SQLite BINARY collation).
Collation == <<"u/a", "u/b", "u/c">>
NameRank(n) == CHOOSE i \in 1..Len(Collation) : Collation[i] = n

\* Language labels in ascending collation order.
LangCollation == <<"JavaScript", "Python">>
LangRank(l) == CHOOSE i \in 1..Len(LangCollation) : LangCollation[i] = l

\* Repository records as the API returns them (the fields this model keeps):
\* two identifiers, each with two versions of its fields; null stars, forks,
\* language and license occur, and two repositories tie on stars.
RepoRecords ==
    { [id |-> 1, full_name |-> "u/b", stargazers_count |-> Some(5),
       forks_count |-> Some(2), language |-> Some("Python"),
       private |-> FALSE, license |-> Some("MIT"),
       description |-> "str"],
      [id |-> 1, full_name |-> "u/b", stargazers_count |-> None,
       forks_count |-> None, language |-> None,
       private |-> TRUE, license |-> None,
       description |-> "str"],
      [id |-> 2, full_name |-> "u/a", stargazers_count |-> Some(5),
       forks_count |-> Some(3), language |-> Some("JavaScript"),
       private |-> TRUE, license |-> None,
       description |-> "str"],
      [id |-> 2, full_name |-> "u/c", stargazers_count |-> Some(3),
       forks_count |-> Some(1), language |-> Some("Python"),
       private |-> FALSE, license |-> Some("MIT"),
       description |-> "str"] }

RepoIds == { r.id : r \in RepoRecords }

RECURSIVE SeqsUpTo(_, _)
SeqsUpTo(S, n) ==
    IF n = 0 THEN { <<>> }
    ELSE LET shorter == SeqsUpTo(S, n - 1)
         IN  shorter \cup { Append(s, x) : s \in shorter, x \in S }

RepoBatches == SeqsUpTo(RepoRecords, MaxBatch)

\* ------------------------------------------------ inputs of the bulk upserts
\* A record whose description is a JSON object instead of a string.
Unbindable ==
    [id |-> 2, full_name |-> "u/a", stargazers_count |-> Some(5),
     forks_count |-> Some(3), language |-> Some("JavaScript"),
     private |-> TRUE, license |-> None, description |-> "dict"]

BulkRepoRecords ==
    { r \in RepoRecords : r.full_name \in {"u/a", "u/b"} /\ ~IsNone(r.language) }
    \cup { Unbindable }

\* An identifier no repository record carries.
UnknownRepoId == Cardinality(RepoIds) + 1

\* The (repo_id, language, bytes) entries of the items passed to
\* upsert_languages: a repository, an unknown one, and a byte count int()
\* rejects.
LanguageEntries ==
    { [ repo_id |-> 1, language |-> "Python", bytes |-> Some(1) ],
      [ repo_id |-> 1, language |-> "Python", bytes |-> Some(2) ],
      [ repo_id |-> UnknownRepoId, language |-> "Python", bytes |-> Some(1) ],
      [ repo_id |-> 1, language |-> "Python", bytes |-> None ] }

ContributorEntries ==
    { [ repo_id |-> 1, login |-> "x", contributions |-> Some(1) ],
      [ repo_id |-> UnknownRepoId, login |-> "x", contributions |-> Some(1) ],
      [ repo_id |-> 1, login |-> "x", contributions |-> None ] }

CommitEntries ==
    { [ repo_id |-> 1, week_start |-> 1, total |-> Some(1) ],
      [ repo_id |-> UnknownRepoId, week_start |-> 1, total |-> Some(1) ],
      [ repo_id |-> 1, week_start |-> 1, total |-> None ] }

\* Weekly commit counts of two repositories: one week they share, one more.
WeekEntries ==
    { [ repo_id |-> 1, week_start |-> 1, total |-> Some(2) ],
      [ repo_id |-> 2, week_start |-> 1, total |-> Some(3) ],
      [ repo_id |-> 1, week_start |-> 2, total |-> Some(1) ] }

PullRequestEntries ==
    { [ repo_id |-> 1, number |-> Some(1), state |-> Some("open") ],
      [ repo_id |-> UnknownRepoId, number |-> Some(1), state |-> Some("open") ],
      [ repo_id |-> 1, number |-> None, state |-> None ] }

\* Pull requests of one repository in every kind of state: a text, NULL, the
\* literal "unknown" and the empty string.
PrStateEntries ==
    { [ repo_id |-> 1, number |-> Some(1), state |-> Some("open") ],
      [ repo_id |-> 1, number |-> Some(2), state |-> None ],
      [ repo_id |-> 1, number |-> Some(3), state |-> Some("unknown") ],
      [ repo_id |-> 1, number |-> Some(4), state |-> Some("") ] }

\* Language and contributor entries of two repositories: a key with two
\* values, a key of the other repository and, for the languages, a second key
\* of the same repository.
ExtrasLanguageEntries ==
    { [ repo_id |-> 1, language |-> "Python", bytes |-> Some(1) ],
      [ repo_id |-> 1, language |-> "Python", bytes |-> Some(2) ],
      [ repo_id |-> 1, language |-> "JavaScript", bytes |-> Some(1) ],
      [ repo_id |-> 2, language |-> "Python", bytes |-> Some(1) ] }

ExtrasContributorEntries ==
    { [ repo_id |-> 1, login |-> "x", contributions |-> Some(1) ],
      [ repo_id |-> 1, login |-> "x", contributions |-> Some(2) ],
      [ repo_id |-> 2, login |-> "x", contributions |-> Some(1) ] }

\* ------------------------------------------------------------ db.py: rows
\* The tuple upsert_repositories builds from one record.
RepoRow(r) ==
    [ repo_id          |-> r.id,
      full_name        |-> r.full_name,
      stargazers_count |-> r.stargazers_count,
      forks_count      |-> r.forks_count,
      language         |-> r.language,
      private          |-> IF r.private THEN 1 ELSE 0,
      license          |-> IF IsNone(r.license) THEN None ELSE r.license,
      description      |-> r.description ]

\* Mutation of UpsertRepoRow: a plain INSERT with no conflict clause.
UpsertRepoRowAlwaysInsert(table, r) == table \cup { RepoRow(r) }

\* INSERT ... ON CONFLICT(repo_id) DO UPDATE SET <every column>=excluded.<column>
UpsertRepoRow(table, r) ==
    IF \E row \in table : row.repo_id = r.id
    THEN { IF row.repo_id = r.id THEN RepoRow(r) ELSE row : row \in table }
    ELSE table \cup { RepoRow(r) }

\* sqlite3 binds None, int, float, str and bytes; any other value of a column
\* (here a description that is a JSON object) makes the statement raise.
Binds(r) == r.description # "dict"

\* executemany: the statement runs once per row, in order, and stops at the
\* first row that raises; `done` counts the rows written before it.
RECURSIVE ExecuteManyRepos(_, _, _)
ExecuteManyRepos(table, rows, done) ==
    IF rows = <<>> THEN [ table |-> table, raised |-> FALSE, done |-> done ]
    ELSE IF ~Binds(Head(rows)) THEN [ table |-> table, raised |-> TRUE, done |-> done ]
    ELSE ExecuteManyRepos(UpsertRepoRow(table, Head(rows)), Tail(rows), done + 1)

\* Mutation of Transaction: the rows written before the failure are kept.
TransactionNoRollback(before, outcome) == outcome.table

\* with self.transaction(): commit, or rollback and re-raise on an exception.
Transaction(before, outcome) ==
    IF outcome.raised THEN before ELSE outcome.table

\* The rows of the repositories table by rowid (repo_id INTEGER PRIMARY KEY).
ReposById(table) ==
    [ i \in { row.repo_id : row \in table } |->
        CHOOSE row \in table : row.repo_id = i ]

\* History: the latest record upserted for each identifier.
RECURSIVE LatestAfter(_, _)
LatestAfter(l, rows) ==
    IF rows = <<>> THEN l
    ELSE LatestAfter(
           [ i \in DOMAIN l \cup {Head(rows).id} |->
               IF i = Head(rows).id THEN Head(rows) ELSE l[i] ],
           Tail(rows))

\* History: the identifiers upserted again with a different record.
RECURSIVE ChangedAfter(_, _, _)
ChangedAfter(c, l, rows) ==
    IF rows = <<>> THEN c
    ELSE LET r == Head(rows)
         IN  ChangedAfter(
               IF r.id \in DOMAIN l /\ l[r.id] # r THEN c \cup {r.id} ELSE c,
               LatestAfter(l, <<r>>), Tail(rows))

\* ---------------------------------------------- db.py: the dependent tables
\* Mutation of ForeignKeyOk: PRAGMA foreign_keys left at its default, OFF.
ForeignKeysOff(repos, repo_id) == TRUE

\* FOREIGN KEY (repo_id) REFERENCES repositories(repo_id), enforced because
\* _configure sets PRAGMA foreign_keys=ON.
ForeignKeyOk(repos, repo_id) == \E row \in repos : row.repo_id = repo_id

\* Mutation of UpsertKeyed: the other rows of the repository are pruned.
UpsertKeyedPruning(table, key, val) ==
    [ k \in { j \in DOMAIN table : j[1] # key[1] } \cup {key} |->
        IF k = key THEN val ELSE table[k] ]

\* INSERT ... ON CONFLICT(<primary key>) DO UPDATE SET <columns>=excluded.<columns>
UpsertKeyed(table, key, val) ==
    [ k \in DOMAIN table \cup {key} |-> IF k = key THEN val ELSE table[k] ]

\* executemany on a dependent table: each row is checked against the
\* repositories table; the first violation raises IntegrityError.
RECURSIVE ExecuteMany(_, _, _, _)
ExecuteMany(table, repos, rows, done) ==
    IF rows = <<>> THEN [ table |-> table, raised |-> FALSE, done |-> done ]
    ELSE IF ~ForeignKeyOk(repos, Head(rows).key[1])
         THEN [ table |-> table, raised |-> TRUE, done |-> done ]
    ELSE ExecuteMany(UpsertKeyed(table, Head(rows).key, Head(rows).val),
                     repos, Tail(rows), done + 1)

\* int(x): raises TypeError on None.
IntRaises(x) == IsNone(x)

\* rows.append((repo_id, lang, int(b))) for the entries of it["languages"]
LanguageRow(e) == [ key |-> <<e.repo_id, e.language>>, val |-> Val(e.bytes) ]
LanguageRaises(e) == IntRaises(e.bytes)

\* rows.append((repo_id, c.get("login"), int(c.get("contributions", 0))))
ContributorRow(e) == [ key |-> <<e.repo_id, e.login>>, val |-> Val(e.contributions) ]
ContributorRaises(e) == IntRaises(e.contributions)

\* rows.append((it["repo_id"], it["week_start"], int(it["total"])))
CommitRow(e) == [ key |-> <<e.repo_id, e.week_start>>, val |-> Val(e.total) ]
CommitRaises(e) == IntRaises(e.total)

\* rows.append((it["repo_id"], int(it["number"]), it.get("state"), ...))
PullRequestRow(e) == [ key |-> <<e.repo_id, Val(e.number)>>, val |-> [ state |-> e.state ] ]
PullRequestRaises(e) == IntRaises(e.number)

\* The row a bulk upsert builds from an entry, and whether building it raises.
RowOf(op, e) ==
    CASE op = "upsert_languages" -> LanguageRow(e)
      [] op = "upsert_contributors" -> ContributorRow(e)
      [] op = "upsert_commit_activity" -> CommitRow(e)
      [] op = "upsert_pull_requests" -> PullRequestRow(e)

RaisesOf(op, e) ==
    CASE op = "upsert_languages" -> LanguageRaises(e)
      [] op = "upsert_contributors" -> ContributorRaises(e)
      [] op = "upsert_commit_activity" -> CommitRaises(e)
      [] op = "upsert_pull_requests" -> PullRequestRaises(e)

\* The loops that build `rows` before the transaction: an int() that raises
\* ends the call before anything is written.
BuildRows(its, op) ==
    IF \E i \in 1..Len(its) : RaisesOf(op, its[i])
    THEN [ rows |-> <<>>, raised |-> TRUE ]
    ELSE [ rows |-> [ i \in 1..Len(its) |-> RowOf(op, its[i]) ], raised |-> FALSE ]

\* One bulk upsert of a dependent table: build the rows, then executemany
\* inside one transaction.
BulkUpsert(table, repos, its, op) ==
    LET built == BuildRows(its, op)
        outcome == IF built.raised
                   THEN [ table |-> table, raised |-> TRUE, done |-> 0 ]
                   ELSE ExecuteMany(table, repos, built.rows, 0)
    IN  [ table |-> Transaction(table, outcome), raised |-> outcome.raised,
          undone |-> IF outcome.raised THEN outcome.done ELSE 0 ]

\* -------------------------------------------------- db.py: upsert_aggregate
AggRow(metric, key, value, at, extra) ==
    [ metric |-> metric, key |-> key, value |-> value,
      computed_at |-> at, extra_json |-> extra ]

\* PRIMARY KEY (metric, key): SQLite treats NULLs as distinct in a PRIMARY KEY
\* of an ordinary table, so a row whose key is NULL conflicts with no row.
Conflicts(row, metric, key) ==
    row.metric = metric /\ ~IsNone(key) /\ row.key = key

\* float(value): the values here are small integers, which float() keeps exactly.
Float(v) == v

UpsertAggregate(table, metric, key, value, at, extra) ==
    IF \E i \in 1..Len(table) : Conflicts(table[i], metric, key)
    THEN [ i \in 1..Len(table) |->
             IF Conflicts(table[i], metric, key)
             THEN AggRow(metric, key, Float(value), at, extra)
             ELSE table[i] ]
    ELSE Append(table, AggRow(metric, key, Float(value), at, extra))

\* ------------------------------------------------------ aggregator.py: SQL
RECURSIVE SumOver(_, _)
\* SUM(col) over the rows whose ids are in S; NULLs add nothing.
SumOver(S, col) ==
    IF S = {} THEN 0
    ELSE LET i == CHOOSE x \in S : TRUE
         IN  (IF IsNone(col[i]) THEN 0 ELSE Val(col[i])) + SumOver(S \ {i}, col)

Take(s, n) == IF Len(s) <= n THEN s ELSE SubSeq(s, 1, n)
Reverse(s) == [ i \in 1..Len(s) |-> s[Len(s) + 1 - i] ]

\* LIMIT 10 of the top_repos_by_stars query.
TopLimit == 10
\* LIMIT 26 of the dora_commits_by_week query.
WeeksLimit == 26

StarsOf(repos) == [ i \in DOMAIN repos |-> repos[i].stargazers_count ]
ForksOf(repos) == [ i \in DOMAIN repos |-> repos[i].forks_count ]

\* SELECT COUNT(*) FROM repositories
TotalRepos(repos) == Cardinality(DOMAIN repos)

\* SELECT COALESCE(SUM(stargazers_count),0) FROM repositories
TotalStars(repos) == SumOver(DOMAIN repos, StarsOf(repos))

\* Mutation of LanguageIsNotNull: the WHERE clause is dropped.
LanguageUnfiltered(v) == TRUE

\* WHERE language IS NOT NULL
LanguageIsNotNull(v) == ~IsNone(v)

\* GROUP BY language: the values of the column in the rows the WHERE keeps.
Languages(repos) ==
    { repos[i].language : i \in { j \in DOMAIN repos : LanguageIsNotNull(repos[j].language) } }

WithLanguage(repos, l) == { i \in DOMAIN repos : repos[i].language = l }

\* The order of the groups: NULL first, then the text values.
GroupRank(l) == IF IsNone(l) THEN 0 ELSE LangRank(Val(l))

\* ORDER BY <sum> DESC over the groups; equal sums come out in group order.
RECURSIVE OrderBySumDesc(_, _)
OrderBySumDesc(langs, sum) ==
    IF langs = {} THEN <<>>
    ELSE LET first == CHOOSE l \in langs : \A m \in langs \ {l} :
                         \/ sum[l] > sum[m]
                         \/ sum[l] = sum[m] /\ GroupRank(l) < GroupRank(m)
         IN  <<first>> \o OrderBySumDesc(langs \ {first}, sum)

\* The rows of the query, as (language, sum).
StarsByLanguage(repos) ==
    LET sum == [ l \in Languages(repos) |->
                   SumOver(WithLanguage(repos, l), StarsOf(repos)) ]
    IN  [ i \in 1..Cardinality(Languages(repos)) |->
            LET l == OrderBySumDesc(Languages(repos), sum)[i]
            IN  [ language |-> l, total |-> sum[l] ] ]

ForksByLanguage(repos) ==
    LET sum == [ l \in Languages(repos) |->
                   SumOver(WithLanguage(repos, l), ForksOf(repos)) ]
    IN  [ i \in 1..Cardinality(Languages(repos)) |->
            LET l == OrderBySumDesc(Languages(repos), sum)[i]
            IN  [ language |-> l, total |-> sum[l] ] ]

\* ORDER BY stargazers_count DESC, full_name ASC: NULL sorts below every
\* number, so last under DESC; rows equal in both columns come in rowid order.
TopBefore(repos, a, b) ==
    LET sa == repos[a].stargazers_count
        sb == repos[b].stargazers_count
    IN  \/ ~IsNone(sa) /\ IsNone(sb)
        \/ ~IsNone(sa) /\ ~IsNone(sb) /\ Val(sa) > Val(sb)
        \/ /\ sa = sb
           /\ \/ NameRank(repos[a].full_name) < NameRank(repos[b].full_name)
              \/ repos[a].full_name = repos[b].full_name /\ a < b

RECURSIVE OrderTop(_, _)
OrderTop(repos, ids) ==
    IF ids = {} THEN <<>>
    ELSE LET first == CHOOSE a \in ids : \A b \in ids \ {a} : TopBefore(repos, a, b)
         IN  <<first>> \o OrderTop(repos, ids \ {first})

\* The rows of the top_repos_by_stars query, as (full_name, stargazers_count).
TopRows(repos) ==
    LET ids == Take(OrderTop(repos, DOMAIN repos), TopLimit)
    IN  [ i \in 1..Len(ids) |->
            [ full_name |-> repos[ids[i]].full_name,
              stargazers_count |-> repos[ids[i]].stargazers_count ] ]

\* int(r[1]) raises TypeError on None.
TopRaises(repos) ==
    \E i \in 1..Len(TopRows(repos)) : IsNone(TopRows(repos)[i].stargazers_count)

TopPayload(repos) ==
    [ i \in 1..Len(TopRows(repos)) |->
        [ full_name |-> TopRows(repos)[i].full_name,
          stars |-> Val(TopRows(repos)[i].stargazers_count) ] ]

\* init_schema, run by the Database constructor, creates both DORA tables.
CommitActivityTableExists == TRUE
PullRequestsTableExists == TRUE

\* GROUP BY week_start ORDER BY week_start DESC LIMIT 26, then [::-1].
Weeks(ca) == { k[2] : k \in DOMAIN ca }

RECURSIVE OrderWeeksDesc(_)
OrderWeeksDesc(weeks) ==
    IF weeks = {} THEN <<>>
    ELSE LET first == CHOOSE w \in weeks : \A v \in weeks : v <= w
         IN  <<first>> \o OrderWeeksDesc(weeks \ {first})

RECURSIVE SumTotals(_, _)
SumTotals(ca, keys) ==
    IF keys = {} THEN 0
    ELSE LET k == CHOOSE x \in keys : TRUE
         IN  ca[k] + SumTotals(ca, keys \ {k})

CommitSeries(ca) ==
    LET recent == Take(OrderWeeksDesc(Weeks(ca)), WeeksLimit)
    IN  Reverse([ i \in 1..Len(recent) |->
                    [ week_start |-> recent[i],
                      commits |-> SumTotals(ca, { k \in DOMAIN ca : k[2] = recent[i] }) ] ])

\* PR state labels in ascending collation order; GROUP BY puts NULL first.
StateCollation == <<"", "closed", "merged", "open", "unknown">>
StateRank(s) ==
    IF IsNone(s) THEN 0
    ELSE CHOOSE i \in 1..Len(StateCollation) : StateCollation[i] = Val(s)

RECURSIVE OrderStates(_)
OrderStates(states) ==
    IF states = {} THEN <<>>
    ELSE LET first == CHOOSE s \in states : \A t \in states : StateRank(s) <= StateRank(t)
         IN  <<first>> \o OrderStates(states \ {first})

\* SELECT state, COUNT(*) FROM pull_requests GROUP BY state
PrGroups(prs) ==
    LET states == { prs[k].state : k \in DOMAIN prs }
        ordered == OrderStates(states)
    IN  [ i \in 1..Len(ordered) |->
            [ state |-> ordered[i],
              count |-> Cardinality({ k \in DOMAIN prs : prs[k].state = ordered[i] }) ] ]

\* r[0] or "unknown": None and the empty string are both falsy.
StateLabel(s) == IF IsNone(s) \/ s = Some("") THEN "unknown" ELSE Val(s)

\* A Python dict as its items in insertion order; a repeated key keeps its
\* place and takes the new value.
DictSet(d, k, v) ==
    IF \E i \in 1..Len(d) : d[i].key = k
    THEN [ i \in 1..Len(d) |-> IF d[i].key = k THEN [ key |-> k, val |-> v ] ELSE d[i] ]
    ELSE Append(d, [ key |-> k, val |-> v ])

RECURSIVE DictFrom(_, _)
DictFrom(d, groups) ==
    IF groups = <<>> THEN d
    ELSE DictFrom(DictSet(d, StateLabel(Head(groups).state), Head(groups).count),
                  Tail(groups))

PrTotals(prs) == DictFrom(<<>>, PrGroups(prs))

RECURSIVE DictSum(_)
DictSum(d) == IF d = <<>> THEN 0 ELSE Head(d).val + DictSum(Tail(d))

\* ------------------------------------------- aggregator.py: compute_aggregates
\* json.dumps keeps the payload's order; a list and a dict print differently.
JsonList(payload) == Some([ kind |-> "list", items |-> payload ])
JsonDict(payload) == Some([ kind |-> "dict", items |-> payload ])

AfterTotals(agg, repos, at) ==
    UpsertAggregate(
        UpsertAggregate(agg, "total_repos", None, TotalRepos(repos), at, None),
        "total_stars", None, TotalStars(repos), at, None)

\* for lang, total in cur.fetchall(): db.upsert_aggregate(metric, lang, total)
RECURSIVE UpsertEach(_, _, _, _)
UpsertEach(agg, metric, rows, at) ==
    IF rows = <<>> THEN agg
    ELSE UpsertEach(
           UpsertAggregate(agg, metric, Head(rows).language, Head(rows).total, at, None),
           metric, Tail(rows), at)

AfterLanguages(agg, repos, at) ==
    UpsertEach(
        UpsertEach(AfterTotals(agg, repos, at), "stars_by_language", StarsByLanguage(repos), at),
        "forks_by_language", ForksByLanguage(repos), at)

AfterTop(agg, repos, at) ==
    UpsertAggregate(AfterLanguages(agg, repos, at), "top_repos_by_stars", None,
                    Len(TopPayload(repos)), at, JsonList(TopPayload(repos)))

AfterCommits(agg, repos, ca, at) ==
    IF CommitActivityTableExists
    THEN UpsertAggregate(AfterTop(agg, repos, at), "dora_commits_by_week", None,
                         Len(CommitSeries(ca)), at, JsonList(CommitSeries(ca)))
    ELSE AfterTop(agg, repos, at)

AfterPrs(agg, repos, ca, prs, at) ==
    IF PullRequestsTableExists
    THEN UpsertAggregate(AfterCommits(agg, repos, ca, at), "dora_prs_total", None,
                         DictSum(PrTotals(prs)), at, JsonDict(PrTotals(prs)))
    ELSE AfterCommits(agg, repos, ca, at)

\* The aggregates table compute_aggregates leaves: every upsert_aggregate commits
\* on its own, so the rows written before int(None) raises stay.
ComputeAggregates(agg, repos, ca, prs, at) ==
    IF TopRaises(repos) THEN AfterLanguages(agg, repos, at)
    ELSE AfterPrs(agg, repos, ca, prs, at)

\* ------------------------------------------- github_client.py: the responses
Tasks == 1..NumTasks

Min(a, b) == IF a <= b THEN a ELSE b
Max(a, b) == IF a >= b THEN a ELSE b

\* merged.update({"per_page": 100, "page": page})
PerPage == 100
\* backoff = 1.0; backoff = min(backoff * 2, 30)
BackoffStart == 1
BackoffFactor == 2
BackoffCap == 30

TransientStatuses == {429, 502, 503, 504}
Statuses == {200, 304, 403, 404, 500} \cup TransientStatuses

\* The records of page p: n records, told apart by page and position.
Records(p, n) == [ i \in 1..n |-> <<p, i>> ]

\* JSON bodies: an array (empty, short, or a full page), an object with or
\* without `items`, null, and a body resp.json() cannot parse.
Bodies(p) ==
    { [ type |-> "array", items |-> Some(Records(p, n)) ] : n \in {0, 1, PerPage} }
    \cup { [ type |-> "object", items |-> Some(Records(p, n)) ] : n \in {0, 1} }
    \cup { [ type |-> "object", items |-> None ],
           [ type |-> "null", items |-> None ],
           [ type |-> "invalid", items |-> None ] }

\* History keeps a body as its type and the number of records it carried.
Described(body) ==
    [ type |-> body.type,
      count |-> IF IsNone(body.items) THEN None ELSE Some(Len(Val(body.items))) ]

NoBody == [ type |-> "none", items |-> None ]

Response(status, remaining, reset, body) ==
    [ timeout |-> FALSE, status |-> status, remaining |-> remaining,
      reset |-> reset, body |-> body ]

\* The total timeout of the session expires before the status line arrives.
TimedOut == [ timeout |-> TRUE, status |-> 0, remaining |-> None,
              reset |-> None, body |-> NoBody ]

\* What the remote may answer to a request for page p at instant t.
Responses(p, t) ==
    { Response(403, remaining, reset, NoBody) :
        remaining \in {None, Some("0"), Some("5")},
        reset \in {None, Some(t + RateLimitWindow)} }
    \cup { Response(st, None, None, NoBody) : st \in {404, 500} \cup TransientStatuses }
    \cup { Response(st, None, None, b) : st \in {200, 304}, b \in Bodies(p) }
    \cup { TimedOut }

\* remaining == "0" and reset
IsRateLimit(resp) ==
    /\ ~resp.timeout
    /\ resp.status = 403
    /\ resp.remaining = Some("0")
    /\ ~IsNone(resp.reset)

IsTransient(resp) == ~resp.timeout /\ resp.status \in TransientStatuses

\* resp.raise_for_status(): aiohttp raises ClientResponseError when the
\* status is 400 or above.
RaiseForStatus(status) == status >= 400

\* sleep_for = max(0, reset_ts - int(time.time()) + 1)
SleepFor(reset_ts, clock) == Max(0, reset_ts - clock + 1)

\* Mutation of NextBackoff: the doubling without its cap.
NextBackoffUncapped(b) == b * BackoffFactor

\* backoff = min(backoff * 2, 30)
NextBackoff(b) == Min(b * BackoffFactor, BackoffCap)

\* What _request_json does with one answer.
Outcome(resp) ==
    IF resp.timeout THEN "raise"
    ELSE IF IsRateLimit(resp) THEN "sleep_rl"
    ELSE IF resp.status \in TransientStatuses THEN "sleep_bo"
    ELSE IF RaiseForStatus(resp.status) THEN "raise"
    ELSE IF resp.body.type = "invalid" THEN "raise"
    ELSE "return"

\* Mutation of PageItems: an object's `items` are dropped.
PageItemsArrayOnly(data) ==
    IF data.type = "array" THEN Val(data.items) ELSE <<>>

\* page_items = data if it is a list, data.get("items", []) if it is a dict,
\* [] otherwise
PageItems(data) ==
    IF data.type = "array" THEN Val(data.items)
    ELSE IF data.type = "object" /\ ~IsNone(data.items) THEN Val(data.items)
    ELSE <<>>

\* Mutation of NextPage: the page number is never advanced.
NextPageStuck(p) == p

\* page += 1
NextPage(p) == p + 1

\* Mutation of Release: the permit is not given back.
ReleaseLeaks(value) == value

\* asyncio.Semaphore.release, at the exit of `async with self.semaphore`
Release(value) == value + 1

\* Mutation of CanAcquire: a semaphore that never blocks.
CanAcquireAlways(value) == TRUE

\* asyncio.Semaphore.acquire returns at once while its value is positive.
CanAcquire(value) == value > 0

\* ------------------------------------------------ github_client.py: the steps
Sleeping(t) == pc[t] \in {"sleep_rl", "sleep_bo"}

NoAnswer == [ task |-> 0, resp |-> TimedOut, outcome |-> "none", slept |-> 0,
              attempt |-> 0, kind |-> "none", result |-> None,
              served |-> <<>>, requested |-> <<>> ]

\* A caller awaits _request_json(url) or _paginate(url).
Start(t, k) ==
    /\ k \in active[t]
    /\ pc[t] = "idle"
    /\ kind' = [kind EXCEPT ![t] = k]
    /\ pc' = [pc EXCEPT ![t] = "acquire"]
    /\ backoff' = [backoff EXCEPT ![t] = BackoffStart]
    /\ page' = [page EXCEPT ![t] = 1]
    /\ items' = [items EXCEPT ![t] = <<>>]
    /\ requested' = [requested EXCEPT ![t] =
                       IF k = "paginate"
                       THEN << [ page |-> 1, per_page |-> PerPage ] >>
                       ELSE <<>>]
    /\ last' = NoAnswer
    /\ UNCHANGED <<permits, holder, wake, served, retries, rlUntil,
                   budget, active, observed, now, storageVars, moreVars>>

\* async with self.semaphore: ... self._session.request(method, url, params)
Send(t) ==
    /\ pc[t] = "acquire"
    /\ CanAcquire(permits)
    /\ permits' = permits - 1
    /\ holder' = holder \cup {t}
    /\ pc' = [pc EXCEPT ![t] = "inflight"]
    /\ last' = NoAnswer
    /\ UNCHANGED <<kind, backoff, wake, page, items, served, requested, retries,
                   rlUntil, budget, active, observed, now, storageVars, moreVars>>

\* The answer arrives (or the timeout expires) and the body of the
\* `async with ... as resp` block runs up to its next await or its exit.
\* When the coroutine ends, its locals end with it.
Respond(t, resp) ==
    /\ pc[t] = "inflight"
    /\ LET out == Outcome(resp)
           pageItems == PageItems(resp.body)
           paginating == out = "return" /\ kind[t] = "paginate"
           more == paginating /\ pageItems # <<>>
           ended == out = "raise" \/ (out = "return" /\ ~more)
           answered == IF paginating /\ observed
                       THEN Append(served[t], Described(resp.body)) ELSE served[t]
           goesOn == out \in {"sleep_rl", "sleep_bo"} \/ more
       IN  /\ out = "sleep_bo" => budget.transient > 0
           /\ out = "sleep_rl" => budget.rate_limit > 0
           /\ more => budget.pages > 0
           /\ goesOn => budget.total > 0
           /\ budget' = [ transient |-> budget.transient - (IF out = "sleep_bo" THEN 1 ELSE 0),
                          rate_limit |-> budget.rate_limit - (IF out = "sleep_rl" THEN 1 ELSE 0),
                          pages |-> budget.pages - (IF more THEN 1 ELSE 0),
                          total |-> budget.total - (IF goesOn THEN 1 ELSE 0) ]
           /\ pc' = [pc EXCEPT ![t] =
                       IF out \in {"sleep_rl", "sleep_bo"} THEN out
                       ELSE IF out = "raise" THEN "raised"
                       ELSE IF more THEN "acquire" ELSE "returned"]
           /\ wake' = [wake EXCEPT ![t] =
                         IF out = "sleep_rl" THEN now + SleepFor(Val(resp.reset), now)
                         ELSE IF out = "sleep_bo" THEN now + backoff[t]
                         ELSE 0]
           \* leaving the `async with` blocks releases the permit; a sleep stays inside
           /\ IF out \in {"sleep_rl", "sleep_bo"}
              THEN UNCHANGED <<permits, holder>>
              ELSE permits' = Release(permits) /\ holder' = holder \ {t}
           /\ items' = [items EXCEPT ![t] =
                          IF more THEN items[t] \o pageItems
                          ELSE IF ended THEN <<>> ELSE items[t]]
           /\ page' = [page EXCEPT ![t] =
                         IF more THEN NextPage(page[t])
                         ELSE IF ended THEN 1 ELSE page[t]]
           /\ requested' = [requested EXCEPT ![t] =
                              IF more
                              THEN Append(requested[t],
                                          [ page |-> NextPage(page[t]), per_page |-> PerPage ])
                              ELSE IF ended THEN <<>> ELSE requested[t]]
           /\ served' = [served EXCEPT ![t] = IF ended THEN <<>> ELSE answered]
           \* each page is a new call of _request_json, with backoff = 1.0 again
           /\ backoff' = [backoff EXCEPT ![t] =
                            IF more \/ ended THEN BackoffStart ELSE backoff[t]]
           /\ retries' = [retries EXCEPT ![t] =
                            IF out = "sleep_bo" THEN retries[t] + 1
                            ELSE IF more \/ ended THEN 0 ELSE retries[t]]
           /\ rlUntil' = IF out = "sleep_rl" THEN Max(rlUntil, Val(resp.reset)) ELSE rlUntil
           /\ last' = IF ~observed THEN NoAnswer ELSE
                      [ task |-> t, resp |-> resp, outcome |-> out,
                        slept |-> IF out = "sleep_bo" THEN backoff[t]
                                  ELSE IF out = "sleep_rl" THEN SleepFor(Val(resp.reset), now)
                                  ELSE 0,
                        attempt |-> IF out = "sleep_bo" THEN retries[t] + 1 ELSE retries[t],
                        kind |-> kind[t],
                        result |-> IF out # "return" \/ more THEN None
                                   ELSE IF kind[t] = "paginate" THEN Some(items[t])
                                   ELSE Some(resp.body),
                        served |-> answered,
                        requested |-> requested[t] ]
    /\ UNCHANGED <<kind, active, observed, now, storageVars, moreVars>>

\* asyncio.sleep returns; `continue` leaves both `async with` blocks and the
\* loop starts over.
Wake(t) ==
    /\ Sleeping(t)
    /\ now >= wake[t]
    /\ permits' = Release(permits)
    /\ holder' = holder \ {t}
    /\ backoff' = [backoff EXCEPT ![t] =
                     IF pc[t] = "sleep_bo" THEN NextBackoff(backoff[t]) ELSE backoff[t]]
    /\ pc' = [pc EXCEPT ![t] = "acquire"]
    /\ wake' = [wake EXCEPT ![t] = 0]
    /\ last' = NoAnswer
    /\ UNCHANGED <<kind, page, items, served, requested, retries, rlUntil,
                   budget, active, observed, now, storageVars, moreVars>>

\* A second passes. Only a sleeping request reads the clock, so the model lets
\* time pass while one waits for it.
Tick ==
    /\ \E t \in Tasks : Sleeping(t) /\ wake[t] > now
    /\ now' = now + 1
    /\ last' = NoAnswer
    /\ UNCHANGED <<permits, holder, pc, kind, backoff, wake, page, items, served,
                   requested, retries, rlUntil, budget, active, observed, storageVars, moreVars>>

\* ------------------------------------------------------- storage operations
EmptyTable == [ k \in {} |-> 0 ]

Elapse == now' \in { now, now + 1 }

upsert_repositories(batch) ==
    LET outcome == ExecuteManyRepos(repositories, batch, 0)
    IN  /\ repositories' = Transaction(repositories, outcome)
        /\ latest' = IF outcome.raised THEN latest ELSE LatestAfter(latest, batch)
        /\ changed' = IF outcome.raised THEN changed
                      ELSE ChangedAfter(changed, latest, batch)
        /\ lastOp' = IF outcome.raised THEN "upsert_repositories raised"
                     ELSE "upsert_repositories"
        /\ undone' = IF outcome.raised THEN outcome.done ELSE 0
        /\ UNCHANGED <<languages, contributors, commit_activity, pull_requests,
                       aggregates, aggCalls, now, clientVars, moreVars>>

\* Direct calls of upsert_aggregate: a scalar metric and a keyed one.
AggregateInputs ==
    { [ metric |-> "total_repos", key |-> None, value |-> 7 ],
      [ metric |-> "stars_by_language", key |-> Some("Python"), value |-> 7 ] }

upsert_aggregate(in) ==
    /\ aggCalls < MaxAggregateCalls
    /\ aggregates' = UpsertAggregate(aggregates, in.metric, in.key, in.value, now, None)
    /\ aggCalls' = aggCalls + 1
    /\ lastOp' = "upsert_aggregate"
    /\ Elapse
    /\ UNCHANGED <<repositories, languages, contributors, commit_activity,
                   pull_requests, latest, changed, undone, clientVars, moreVars>>

compute_aggregates ==
    /\ aggCalls < MaxAggregateCalls
    /\ aggregates' = ComputeAggregates(aggregates, ReposById(repositories),
                                       commit_activity, pull_requests, now)
    /\ aggCalls' = aggCalls + 1
    /\ lastOp' = "compute_aggregates"
    /\ Elapse
    /\ UNCHANGED <<repositories, languages, contributors, commit_activity,
                   pull_requests, latest, changed, undone, clientVars, moreVars>>

upsert_languages(its) ==
    LET call == BulkUpsert(languages, repositories, its, "upsert_languages")
    IN  /\ languages' = call.table
        /\ lastOp' = IF call.raised THEN "upsert_languages raised" ELSE "upsert_languages"
        /\ undone' = call.undone
        /\ UNCHANGED <<repositories, contributors, commit_activity, pull_requests,
                       aggregates, latest, changed, aggCalls, now, clientVars, moreVars>>

upsert_contributors(its) ==
    LET call == BulkUpsert(contributors, repositories, its, "upsert_contributors")
    IN  /\ contributors' = call.table
        /\ lastOp' = IF call.raised THEN "upsert_contributors raised"
                     ELSE "upsert_contributors"
        /\ undone' = call.undone
        /\ UNCHANGED <<repositories, languages, commit_activity, pull_requests,
                       aggregates, latest, changed, aggCalls, now, clientVars, moreVars>>

upsert_commit_activity(its) ==
    LET call == BulkUpsert(commit_activity, repositories, its, "upsert_commit_activity")
    IN  /\ commit_activity' = call.table
        /\ lastOp' = IF call.raised THEN "upsert_commit_activity raised"
                     ELSE "upsert_commit_activity"
        /\ undone' = call.undone
        /\ UNCHANGED <<repositories, languages, contributors, pull_requests,
                       aggregates, latest, changed, aggCalls, now, clientVars, moreVars>>

upsert_pull_requests(its) ==
    LET call == BulkUpsert(pull_requests, repositories, its, "upsert_pull_requests")
    IN  /\ pull_requests' = call.table
        /\ lastOp' = IF call.raised THEN "upsert_pull_requests raised"
                     ELSE "upsert_pull_requests"
        /\ undone' = call.undone
        /\ UNCHANGED <<repositories, languages, contributors, commit_activity,
                       aggregates, latest, changed, aggCalls, now, clientVars, moreVars>>

\* ------------------------------------------------- main.py: fetch_and_store
\* Largest number of repositories the listing returns.
MaxListed == 2

\* for i in range(0, len(tasks), 50)
ExtrasBatch == 50

\* The repositories an account may list.
ListedRecords ==
    { r \in RepoRecords : r.full_name \in {"u/a", "u/b"} /\ ~IsNone(r.language) }

\* What the remote answers for the languages of the repository named in the
\* URL: no language, or one whose byte count tells the repositories apart.
RemoteLanguages(name) ==
    { <<>>, << [ language |-> "Python", bytes |-> NameRank(name) ] >> }

\* What it answers for the contributors: none, one, or one without a count.
RemoteContributors(name) ==
    { <<>>,
      << [ login |-> "x", contributions |-> Some(NameRank(name)) ] >>,
      << [ login |-> "y", contributions |-> None ] >> }

\* {"login": c.get("login"), "contributions": c.get("contributions", 0)}
Normalize(contrib) ==
    [ j \in 1..Len(contrib) |->
        [ login |-> contrib[j].login,
          contributions |-> IF IsNone(contrib[j].contributions) THEN 0
                            ELSE Val(contrib[j].contributions) ] ]

\* Mutation of RepoIdOf: the identifier of the last repository of the list.
RepoIdOfLast(rs, i) == rs[Len(rs)].id

\* rid = int(repo["id"]), with `repo` the coroutine's own argument
RepoIdOf(rs, i) == rs[i].id

NoExtras == [ repo_id |-> 0, languages |-> <<>>, contributors |-> None ]
NoFetch == [ asked |-> "", languages |-> <<>>, contributors |-> <<>> ]

\* The coroutines of the batch being gathered: those after the results so far.
BatchEnd == Min(Len(results) + ExtrasBatch, Len(repoList))
InBatch(i) == Len(results) < i /\ i <= BatchEnd

\* The entries of the items handed to upsert_languages / upsert_contributors.
RECURSIVE LanguageEntriesOf(_)
LanguageEntriesOf(res) ==
    IF res = <<>> THEN <<>>
    ELSE [ j \in 1..Len(Head(res).languages) |->
             [ repo_id |-> Head(res).repo_id,
               language |-> Head(res).languages[j].language,
               bytes |-> Some(Head(res).languages[j].bytes) ] ]
         \o LanguageEntriesOf(Tail(res))

RECURSIVE ContributorEntriesOf(_)
ContributorEntriesOf(res) ==
    IF res = <<>> THEN <<>>
    ELSE LET list == IF IsNone(Head(res).contributors) THEN <<>>
                     ELSE Val(Head(res).contributors)
         IN  [ j \in 1..Len(list) |->
                 [ repo_id |-> Head(res).repo_id, login |-> list[j].login,
                   contributions |-> Some(list[j].contributions) ] ]
             \o ContributorEntriesOf(Tail(res))

\* The public coroutines class GitHubClient defines.
ClientMethods ==
    { "list_user_repos", "list_org_repos", "get_repo_languages", "list_repo_contributors" }

\* gh.<name>: the attribute lookup raises AttributeError for any other name.
HasMethod(name) == name \in ClientMethods

\* The part of fetch_and_store after the last gather of fetch_repo_extras, up
\* to its next await: split the results and save them; then, with include_dora
\* and a repository, hand the commit-activity coroutines to gather; otherwise
\* compute the aggregates.
Finish(res) ==
    LET stored == [ table |-> languages, raised |-> FALSE, undone |-> 0 ]
        langCall == IF res = <<>> THEN stored
                    ELSE BulkUpsert(languages, repositories, LanguageEntriesOf(res),
                                    "upsert_languages")
        contribCall == IF ~cfg.include_contributors \/ res = <<>> \/ langCall.raised
                       THEN [ table |-> contributors, raised |-> FALSE, undone |-> 0 ]
                       ELSE BulkUpsert(contributors, repositories,
                                       ContributorEntriesOf(res),
                                       "upsert_contributors")
        saved == ~langCall.raised /\ ~contribCall.raised
        gathers == saved /\ cfg.include_dora /\ res # <<>>
        computes == saved /\ ~gathers /\ ~cfg.skip_aggregates
    IN  /\ results' = res
        /\ languages' = langCall.table
        /\ contributors' = contribCall.table
        /\ aggregates' = IF computes
                         THEN ComputeAggregates(aggregates, ReposById(repositories),
                                                commit_activity, pull_requests, now)
                         ELSE aggregates
        /\ aggCalls' = IF computes THEN aggCalls + 1 ELSE aggCalls
        /\ undone' = 0
        /\ fpc' = IF gathers THEN "dora"
                  ELSE IF saved /\ ~(computes /\ TopRaises(ReposById(repositories)))
                  THEN "done" ELSE "failed"

\* repos = await gh.list_user_repos(target); db.upsert_repositories(repos);
\* the first batch of fetch_repo_extras coroutines is handed to gather.
ListRepos(rs) ==
    /\ fpc = "idle"
    /\ repoList' = rs
    /\ lastOp' = "fetch_and_store"
    /\ IF rs = <<>>
       THEN /\ Finish(<<>>)
            /\ UNCHANGED <<repositories, latest, changed, task, extras, fetched>>
       ELSE LET outcome == ExecuteManyRepos(repositories, rs, 0)
            IN  /\ repositories' = Transaction(repositories, outcome)
                /\ latest' = IF outcome.raised THEN latest ELSE LatestAfter(latest, rs)
                /\ changed' = IF outcome.raised THEN changed
                              ELSE ChangedAfter(changed, latest, rs)
                /\ undone' = IF outcome.raised THEN outcome.done ELSE 0
                /\ fpc' = IF outcome.raised THEN "failed" ELSE "gathering"
                /\ task' = [ i \in 1..Len(rs) |->
                               IF i <= ExtrasBatch THEN "languages" ELSE "pending" ]
                /\ extras' = [ i \in 1..Len(rs) |-> NoExtras ]
                /\ fetched' = [ i \in 1..Len(rs) |-> NoFetch ]
                /\ UNCHANGED <<languages, contributors, aggregates, aggCalls, results>>
    /\ UNCHANGED <<nsVars, commit_activity, pull_requests, cfg, completed, now, clientVars>>

\* langs = await gh.get_repo_languages(owner, name) returns in coroutine i.
LanguagesArrive(i, langs) ==
    /\ fpc \in {"gathering", "raising"}
    /\ task[i] = "languages"
    /\ extras' = [extras EXCEPT ![i] =
                    [ repo_id |-> RepoIdOf(repoList, i), languages |-> langs,
                      contributors |-> None ]]
    /\ fetched' = [fetched EXCEPT ![i] =
                     [ asked |-> repoList[i].full_name, languages |-> langs,
                       contributors |-> <<>> ]]
    /\ task' = [task EXCEPT ![i] =
                  IF cfg.include_contributors THEN "contributors" ELSE "done"]
    /\ completed' = IF cfg.include_contributors THEN completed
                    ELSE Append(completed, i)
    /\ UNCHANGED <<nsVars, fpc, cfg, repoList, results, storageVars, clientVars, now>>

\* contrib = await gh.list_repo_contributors(owner, name) returns in coroutine i.
ContributorsArrive(i, contrib) ==
    /\ fpc \in {"gathering", "raising"}
    /\ task[i] = "contributors"
    /\ extras' = [extras EXCEPT ![i].contributors = Some(Normalize(contrib))]
    /\ fetched' = [fetched EXCEPT ![i].contributors = contrib]
    /\ task' = [task EXCEPT ![i] = "done"]
    /\ completed' = Append(completed, i)
    /\ UNCHANGED <<nsVars, fpc, cfg, repoList, results, storageVars, clientVars, now>>

\* A request of coroutine i raises. gather (return_exceptions left False) sets
\* the first exception on the future fetch_and_store awaits and cancels
\* nothing: the other coroutines of the batch keep running until
\* fetch_and_store is resumed.
ExtrasFail(i) ==
    /\ fpc \in {"gathering", "raising"}
    /\ task[i] \in {"languages", "contributors"}
    /\ task' = [task EXCEPT ![i] = "raised"]
    /\ fpc' = "raising"
    /\ UNCHANGED <<nsVars, cfg, repoList, extras, fetched, completed, results,
                   storageVars, clientVars, now>>

\* fetch_and_store is resumed with the exception, which leaves the
\* `async with GitHubClient` block (closing the session) and the function.
Propagate ==
    /\ fpc = "raising"
    /\ fpc' = "failed"
    /\ UNCHANGED <<nsVars, cfg, repoList, task, extras, fetched, completed, results,
                   storageVars, clientVars, now>>

\* await asyncio.gather(*batch) over the fetch_commit_activity coroutines:
\* each evaluates gh.get_repo_commit_activity before anything is awaited.
CommitActivityGather ==
    /\ fpc = "dora"
    /\ ~HasMethod("get_repo_commit_activity")
    /\ fpc' = "failed"
    /\ UNCHANGED <<nsVars, cfg, repoList, task, extras, fetched, completed, results,
                   storageVars, clientVars, now>>

\* results.extend(await asyncio.gather(*batch)): every coroutine of the batch
\* has returned; gather hands their values back in the order of the batch.
Gathered ==
    /\ fpc = "gathering"
    /\ \A i \in 1..Len(repoList) : InBatch(i) => task[i] = "done"
    /\ LET res == results \o SubSeq(extras, Len(results) + 1, BatchEnd)
       IN  IF BatchEnd < Len(repoList)
           THEN /\ results' = res
                /\ task' = [ i \in 1..Len(repoList) |->
                               IF BatchEnd < i /\ i <= BatchEnd + ExtrasBatch
                               THEN "languages" ELSE task[i] ]
                /\ UNCHANGED <<fpc, storageVars>>
           ELSE /\ Finish(res)
                /\ lastOp' = "fetch_and_store"
                /\ UNCHANGED <<repositories, commit_activity, pull_requests,
                               latest, changed, task>>
    /\ UNCHANGED <<nsVars, cfg, repoList, extras, fetched, completed, clientVars, now>>

\* --------------------------------------- main.py / db.py: namespaces of a file
\* The characters target names are written with here: a lower-case and an
\* upper-case letter, and two characters that are not alphanumeric.
TargetChars == {"a", "A", "-", "_"}

MaxTargetLen == 2
MaxCycles == 2

\* The character class [0-9A-Za-z_] of both regular expressions: of the
\* characters written here, all but the hyphen.
IsWordChar(c) == c # "-"

RECURSIVE DropNonWord(_)
DropNonWord(s) ==
    IF s # <<>> /\ ~IsWordChar(Head(s)) THEN DropNonWord(Tail(s)) ELSE s

\* re.sub(r"[^0-9A-Za-z_]+", "_", s): every maximal run of other characters
\* becomes one underscore.
RECURSIVE ReSub(_)
ReSub(s) ==
    IF s = <<>> THEN <<>>
    ELSE IF IsWordChar(Head(s)) THEN <<Head(s)>> \o ReSub(Tail(s))
    ELSE <<"_">> \o ReSub(DropNonWord(s))

RECURSIVE LStrip(_)
LStrip(s) == IF s # <<>> /\ Head(s) = "_" THEN LStrip(Tail(s)) ELSE s

\* str.strip("_")
Strip(s) == Reverse(LStrip(Reverse(LStrip(s))))

\* str.lower()
Lower(s) == [ i \in 1..Len(s) |-> IF s[i] = "A" THEN "a" ELSE s[i] ]

Cleaned(s) == Lower(Strip(ReSub(s)))

NamespaceLimit == 40
DefaultNamespace == <<"d", "e", "f", "a", "u", "l", "t">>

\* _namespace_from_target(target)
namespace_from_target(target) ==
    LET short == Take(Cleaned(target), NamespaceLimit)
    IN  IF short = <<>> THEN DefaultNamespace ELSE short

\* _sanitize_namespace(ns): None when nothing is left, which selects the
\* tables without suffix.
sanitize_namespace(ns) ==
    IF IsNone(ns) \/ Val(ns) = <<>> THEN None
    ELSE IF Cleaned(Val(ns)) # <<>> THEN Some(Take(Cleaned(Val(ns)), NamespaceLimit))
    ELSE None

\* Database(cfg.db_path, namespace=_namespace_from_target(cfg.target)).namespace;
\* the table names are the base names suffixed with it.
NamespaceOf(target) == sanitize_namespace(Some(namespace_from_target(target)))

Targets == SeqsUpTo(TargetChars, MaxTargetLen) \ { <<>> }
Accounts == {1, 2}

\* What the remote lists for an account: each account owns one repository,
\* and the two have different GitHub ids.
ListedFor(k) == SeqsUpTo({ r \in ListedRecords : r.id = k }, 1) \ { <<>> }

NoTables == [ repositories |-> {}, aggregates |-> <<>> ]

\* init_schema: CREATE TABLE IF NOT EXISTS leaves an existing table as it is.
TablesOf(file, ns) == IF ns \in DOMAIN file THEN file[ns] ELSE NoTables

\* One fetch-and-aggregate cycle for account k: open the database with the
\* namespace of its target, store what the remote lists, compute the aggregates.
Cycle(k, rs) ==
    LET ns == NamespaceOf(targets[k])
        before == TablesOf(dbfile, ns)
        stored == Transaction(before.repositories,
                              ExecuteManyRepos(before.repositories, rs, 0))
        after == [ repositories |-> stored,
                   aggregates |-> ComputeAggregates(before.aggregates, ReposById(stored),
                                                    EmptyTable, EmptyTable, now) ]
    IN  /\ Len(ran) < MaxCycles
        /\ dbfile' = [ n \in DOMAIN dbfile \cup {ns} |->
                         IF n = ns THEN after ELSE dbfile[n] ]
        /\ ran' = Append(ran, [ account |-> k, ns |-> ns,
                                listed |-> { r.id : r \in { rs[i] : i \in DOMAIN rs } },
                                total_repos |-> TotalRepos(ReposById(stored)) ])
        /\ UNCHANGED <<targets, fpc, cfg, repoList, task, extras, fetched, completed,
                       results, storageVars, clientVars, now>>

vars == <<storageVars, clientVars, moreVars, now>>

InitStorage ==
    /\ repositories = {}
    /\ languages = EmptyTable
    /\ contributors = EmptyTable
    /\ commit_activity = EmptyTable
    /\ pull_requests = EmptyTable
    /\ aggregates = <<>>
    /\ now = 0
    /\ lastOp = "init"
    /\ latest = EmptyTable
    /\ changed = {}
    /\ aggCalls = 0
    /\ undone = 0

\* The flags of fetch_and_store this model varies.
Cfgs == [ include_contributors : BOOLEAN, include_dora : BOOLEAN,
          skip_aggregates : BOOLEAN ]
DefaultCfg == [ include_contributors |-> FALSE, include_dora |-> FALSE,
                skip_aggregates |-> FALSE ]

\* fetch_and_store has not been called; the database file has no table yet.
InitRun(c, ts) ==
    /\ targets = ts
    /\ dbfile = EmptyTable
    /\ ran = <<>>
    /\ fpc = "idle"
    /\ cfg = c
    /\ repoList = <<>>
    /\ task = <<>>
    /\ extras = <<>>
    /\ fetched = <<>>
    /\ completed = <<>>
    /\ results = <<>>

InitMoreWith(c) == InitRun(c, <<>>)
InitMore == InitMoreWith(DefaultCfg)

\* GitHubClient.__init__: asyncio.Semaphore(concurrency); no request yet.
InitClientWith(kinds, b, obs) ==
    /\ permits = Concurrency
    /\ holder = {}
    /\ pc = [ t \in Tasks |-> "idle" ]
    /\ kind = [ t \in Tasks |-> "request" ]
    /\ backoff = [ t \in Tasks |-> BackoffStart ]
    /\ wake = [ t \in Tasks |-> 0 ]
    /\ page = [ t \in Tasks |-> 1 ]
    /\ items = [ t \in Tasks |-> <<>> ]
    /\ served = [ t \in Tasks |-> <<>> ]
    /\ requested = [ t \in Tasks |-> <<>> ]
    /\ retries = [ t \in Tasks |-> 0 ]
    /\ rlUntil = 0
    /\ last = NoAnswer
    /\ budget = b
    /\ active = kinds
    /\ observed = obs

ClientBudget ==
    [ transient |-> ClientAnswers, rate_limit |-> ClientAnswers,
      pages |-> ClientAnswers, total |-> ClientAnswers ]
RetryBudget ==
    [ transient |-> MaxRetries, rate_limit |-> MaxRateLimits, pages |-> 0,
      total |-> MaxRetries + MaxRateLimits ]
PaginateBudget ==
    [ transient |-> MaxRateLimits, rate_limit |-> MaxRateLimits, pages |-> MaxPages,
      total |-> MaxPages + MaxRateLimits ]

Kinds == {"request", "paginate"}
\* No request; one paginating and the others plain; one request of either kind.
NoTask == [ t \in Tasks |-> {} ]
MixedTasks == [ t \in Tasks |-> IF t = 1 THEN {"paginate"} ELSE {"request"} ]
OneTask == [ t \in Tasks |-> IF t = 1 THEN Kinds ELSE {} ]

Init == InitStorage /\ InitClientWith(NoTask, ClientBudget, FALSE) /\ InitMore
InitClient == InitStorage /\ InitClientWith(MixedTasks, ClientBudget, FALSE) /\ InitMore
InitRetry == InitStorage /\ InitClientWith(OneTask, RetryBudget, TRUE) /\ InitMore
InitPaginate == InitStorage /\ InitClientWith(OneTask, PaginateBudget, TRUE) /\ InitMore

NextStorage ==
    \/ \E batch \in RepoBatches : upsert_repositories(batch)
    \/ \E in \in AggregateInputs : upsert_aggregate(in)
    \/ compute_aggregates

NextClient ==
    \/ \E t \in Tasks, k \in Kinds : Start(t, k)
    \/ \E t \in Tasks : Send(t)
    \/ \E t \in Tasks : \E resp \in Responses(page[t], now) : Respond(t, resp)
    \/ \E t \in Tasks : Wake(t)
    \/ Tick

\* The storage layer and the aggregator, called in any order.
SpecStorage == Init /\ [][NextStorage]_vars
\* Concurrent logical requests on one client.
SpecClient == InitClient /\ [][NextClient]_vars
\* One logical request, followed through many retries.
SpecRetry == InitRetry /\ [][NextClient]_vars
\* One logical request, followed through many pages.
SpecPaginate == InitPaginate /\ [][NextClient]_vars

NextBulk ==
    \/ \E batch \in SeqsUpTo(BulkRepoRecords, MaxBatch) : upsert_repositories(batch)
    \/ \E its \in SeqsUpTo(LanguageEntries, MaxBatch) : upsert_languages(its)
    \/ \E its \in SeqsUpTo(ContributorEntries, MaxBatch) : upsert_contributors(its)
    \/ \E its \in SeqsUpTo(CommitEntries, MaxBatch) : upsert_commit_activity(its)
    \/ \E its \in SeqsUpTo(PullRequestEntries, MaxBatch) : upsert_pull_requests(its)

\* The five bulk upserts, called in any order with batches that may fail.
SpecBulk == Init /\ [][NextBulk]_vars

\* Calls with one record each: every content of the tables is still reached.
OneRepoBatches == { <<r>> : r \in RepoRecords }
OneWeekBatches == { <<e>> : e \in WeekEntries }

\* The repositories of the commit-activity runs: two with star counts, and the
\* version of the first that has none.
DoraRecords == ListedRecords \cup { r \in RepoRecords : IsNone(r.stargazers_count) }

NextAggregate ==
    \/ \E batch \in OneRepoBatches : upsert_repositories(batch)
    \/ compute_aggregates

\* Repository upserts with computations in between; the aggregates table is
\* written by compute_aggregates only.
SpecAggregate == Init /\ [][NextAggregate]_vars

NextUpserts ==
    \/ \E batch \in RepoBatches : upsert_repositories(batch)
    \/ \E its \in OneWeekBatches : upsert_commit_activity(its)

\* Repository upserts in batches, with upserts of a dependent table in between.
SpecUpserts == Init /\ [][NextUpserts]_vars

NextDora ==
    \/ \E r \in DoraRecords : upsert_repositories(<<r>>)
    \/ \E its \in OneWeekBatches : upsert_commit_activity(its)
    \/ compute_aggregates

\* The same with commit-activity upserts.
SpecDora == Init /\ [][NextDora]_vars

NextPrs ==
    \/ \E r \in ListedRecords : upsert_repositories(<<r>>)
    \/ \E e \in PrStateEntries : upsert_pull_requests(<<e>>)
    \/ compute_aggregates

\* Repositories with star counts, pull requests in every kind of state, and
\* computations.
SpecPrs == Init /\ [][NextPrs]_vars

\* The batches one call of upsert_languages or upsert_contributors is given.
ExtrasLanguageBatches == SeqsUpTo(ExtrasLanguageEntries, MaxBatch)
ExtrasContributorBatches == SeqsUpTo(ExtrasContributorEntries, MaxBatch)

NextExtras ==
    \/ \E r1, r2 \in ListedRecords : r1.id < r2.id /\ upsert_repositories(<<r1, r2>>)
    \/ \E its \in ExtrasLanguageBatches : upsert_languages(its)
    \/ \E its \in ExtrasContributorBatches : upsert_contributors(its)

\* Languages and contributors of two repositories, fetched again and again.
SpecExtras == Init /\ [][NextExtras]_vars

InitFetch ==
    /\ InitStorage
    /\ InitClientWith(NoTask, ClientBudget, FALSE)
    /\ \E c \in Cfgs : InitMoreWith(c)

NextFetch ==
    \/ \E rs \in SeqsUpTo(ListedRecords, MaxListed) : ListRepos(rs)
    \/ \E i \in 1..Len(repoList) :
         \E langs \in RemoteLanguages(repoList[i].full_name) : LanguagesArrive(i, langs)
    \/ \E i \in 1..Len(repoList) :
         \E contrib \in RemoteContributors(repoList[i].full_name) :
            ContributorsArrive(i, contrib)
    \/ \E i \in 1..Len(repoList) : ExtrasFail(i)
    \/ Propagate
    \/ Gathered
    \/ CommitActivityGather

\* One run of fetch_and_store, its per-repository fetches completing in any order.
SpecFetch == InitFetch /\ [][NextFetch]_vars

\* ------------------------------------------ main.py: a cycle run once more
\* Largest number of invocations of fetch_and_store against one database file.
MaxRuns == 2

\* A remote whose data does not change between the invocations: the same
\* listing and, for each repository, the same languages and contributors.
StableListing ==
    << CHOOSE r \in ListedRecords : r.id = 1, CHOOSE r \in ListedRecords : r.id = 2 >>
StableLanguages(name) == << [ language |-> "Python", bytes |-> NameRank(name) ] >>
StableContributors(name) == << [ login |-> "x", contributions |-> Some(NameRank(name)) ] >>

\* fetch_and_store is invoked again with the same configuration after the
\* previous invocation returned or raised: the database file is as it was left.
Rerun ==
    /\ fpc \in {"done", "failed"}
    /\ Len(ran) + 1 < MaxRuns
    /\ ran' = Append(ran, [ ended |-> fpc ])
    /\ fpc' = "idle"
    /\ repoList' = <<>>
    /\ task' = <<>>
    /\ extras' = <<>>
    /\ fetched' = <<>>
    /\ completed' = <<>>
    /\ results' = <<>>
    /\ UNCHANGED <<targets, dbfile, cfg, storageVars, clientVars, now>>

NextRerun ==
    \/ ListRepos(StableListing)
    \/ \E i \in 1..Len(repoList) :
         LanguagesArrive(i, StableLanguages(repoList[i].full_name))
    \/ \E i \in 1..Len(repoList) :
         ContributorsArrive(i, StableContributors(repoList[i].full_name))
    \/ \E i \in 1..Len(repoList) : ExtrasFail(i)
    \/ Propagate
    \/ Gathered
    \/ CommitActivityGather
    \/ Rerun

\* Invocations of fetch_and_store, one after the other, against one database
\* file and a remote whose data stays the same.
SpecRerun == InitFetch /\ [][NextRerun]_vars

\* ------------------------------- main.py: commit-activity post-processing
SecondsPerDay == 86400
SecondsPerWeek == 604800

\* Longest answer of the commit-activity endpoint.
MaxWeeks == 3

\* Week entries as the API gives them, {week: epoch seconds, total: int}: the
\* weeks starting at the epoch and seven days later, an instant later in that
\* second week's first day, and an entry whose total is null.
ApiWeeks ==
    { [ week |-> 0, total |-> Some(1) ],
      [ week |-> SecondsPerWeek, total |-> Some(2) ],
      [ week |-> SecondsPerWeek + SecondsPerDay - 1, total |-> Some(3) ],
      [ week |-> 2 * SecondsPerWeek, total |-> None ] }

\* datetime.utcfromtimestamp(ts).date(), as the number of the day since
\* 1970-01-01; isoformat() writes that day and keeps the order of the days.
UtcDate(ts) == ts \div SecondsPerDay

\* The loop of fetch_commit_activity: the entries in the order of the answer,
\* an entry whose conversion raises left out.
RECURSIVE CommitActivityItems(_, _)
CommitActivityItems(rid, weeks) ==
    IF weeks = <<>> THEN <<>>
    ELSE LET w == Head(weeks)
         IN  (IF IntRaises(w.total) THEN <<>>
              ELSE << [ repo_id |-> rid, week_start |-> UtcDate(w.week),
                        total |-> Val(w.total) ] >>)
             \o CommitActivityItems(rid, Tail(weeks))

\* The answer of the commit-activity endpoint for the one repository listed.
InitCommitActivity ==
    /\ InitStorage
    /\ InitClientWith(NoTask, ClientBudget, FALSE)
    /\ targets = <<>>
    /\ dbfile = EmptyTable
    /\ ran = <<>>
    /\ fpc = "dora"
    /\ cfg = [DefaultCfg EXCEPT !.include_dora = TRUE]
    /\ \E r \in ListedRecords : repoList = <<r>>
    /\ task = <<"commit_activity">>
    /\ extras = <<>>
    /\ fetched \in SeqsUpTo(ApiWeeks, MaxWeeks)
    /\ completed = <<>>
    /\ results = <<>>

\* fetch_commit_activity(repo) returns its items to gather (ca_results).
CommitActivityReturns(i) ==
    /\ fpc = "dora"
    /\ task[i] = "commit_activity"
    /\ results' = CommitActivityItems(RepoIdOf(repoList, i), fetched)
    /\ task' = [task EXCEPT ![i] = "done"]
    /\ UNCHANGED <<nsVars, fpc, cfg, repoList, extras, fetched, completed,
                   storageVars, clientVars, now>>

NextCommitActivity == \E i \in 1..Len(repoList) : CommitActivityReturns(i)

\* fetch_commit_activity applied to every answer of the endpoint.
SpecCommitActivity == InitCommitActivity /\ [][NextCommitActivity]_vars

\* ------------------------------- main.py: pull-request post-processing
\* Longest answer of the pull-request endpoint.
MaxPrs == 2

\* The texts compared here, in ascending order of Python's string comparison.
IsoCollation ==
    << "2024-01-01T12:00:00Z", "2024-01-02", "2024-01-02T00:00:00+12:00",
       "2024-01-02T06:00:00Z", "yesterday" >>
IsoRank(text) == CHOOSE n \in 1..Len(IsoCollation) : IsoCollation[n] = text

\* datetime.fromisoformat(text) raises ValueError.
FromIsoRaises(text) == text = "yesterday"

\* Pull requests as the API lists them, newest first; the oldest record
\* carries no created_at.
ApiPrs ==
    { [ number |-> 3, created_at |-> Some("2024-01-02T06:00:00Z") ],
      [ number |-> 2, created_at |-> Some("2024-01-01T12:00:00Z") ],
      [ number |-> 1, created_at |-> None ] }

\* Config.since_iso and Config.max_prs_per_repo, both Optional.
SinceValues ==
    { None, Some("2024-01-02"), Some("2024-01-02T00:00:00+12:00"), Some("yesterday") }
Caps == { None } \cup { Some(n) : n \in 0..MaxPrs }

\* since_dt is set when since_iso is given and fromisoformat accepts it.
SinceDtSet(since_iso) == ~IsNone(since_iso) /\ ~FromIsoRaises(Val(since_iso))

\* [p for p in prs if p.get("created_at") and p["created_at"] >= cfg.since_iso]
RECURSIVE CreatedSince(_, _)
CreatedSince(prs, since_iso) ==
    IF prs = <<>> THEN <<>>
    ELSE (IF /\ ~IsNone(Head(prs).created_at)
             /\ IsoRank(Val(Head(prs).created_at)) >= IsoRank(since_iso)
          THEN <<Head(prs)>> ELSE <<>>)
         \o CreatedSince(Tail(prs), since_iso)

\* The body of fetch_pull_requests after the answer: the filter when since_dt
\* is set, the slice when max_prs_per_repo is truthy, the normalisation.
PullRequestItems(rid, prs, since_iso, cap) ==
    LET filtered == IF SinceDtSet(since_iso) THEN CreatedSince(prs, Val(since_iso))
                    ELSE prs
        capped == IF ~IsNone(cap) /\ Val(cap) # 0 THEN Take(filtered, Val(cap))
                  ELSE filtered
    IN  [ n \in 1..Len(capped) |->
            [ repo_id |-> rid, number |-> capped[n].number,
              created_at |-> capped[n].created_at ] ]

\* The answer of the pull-request endpoint for the one repository listed.
InitPullRequests ==
    /\ InitStorage
    /\ InitClientWith(NoTask, ClientBudget, FALSE)
    /\ targets = <<>>
    /\ dbfile = EmptyTable
    /\ ran = <<>>
    /\ fpc = "dora"
    /\ \E since \in SinceValues, cap \in Caps :
         cfg = [ include_contributors |-> FALSE, include_dora |-> TRUE,
                 skip_aggregates |-> FALSE, since_iso |-> since,
                 max_prs_per_repo |-> cap ]
    /\ \E r \in ListedRecords : repoList = <<r>>
    /\ task = <<"pull_requests">>
    /\ extras = <<>>
    /\ fetched \in SeqsUpTo(ApiPrs, MaxPrs)
    /\ completed = <<>>
    /\ results = <<>>

\* fetch_pull_requests(repo) returns its records to gather (pr_results).
PullRequestsReturn(i) ==
    /\ fpc = "dora"
    /\ task[i] = "pull_requests"
    /\ results' = PullRequestItems(RepoIdOf(repoList, i), fetched, cfg.since_iso,
                                   cfg.max_prs_per_repo)
    /\ task' = [task EXCEPT ![i] = "done"]
    /\ UNCHANGED <<nsVars, fpc, cfg, repoList, extras, fetched, completed,
                   storageVars, clientVars, now>>

NextPullRequests == \E i \in 1..Len(repoList) : PullRequestsReturn(i)

\* fetch_pull_requests applied to every answer of the endpoint, under every
\* configuration of the filter and the cap.
SpecPullRequests == InitPullRequests /\ [][NextPullRequests]_vars

\* Two different target names, one per account.
InitNamespaces ==
    /\ InitStorage
    /\ InitClientWith(NoTask, ClientBudget, FALSE)
    /\ \E t1, t2 \in Targets : t1 # t2 /\ InitRun(DefaultCfg, <<t1, t2>>)

NextNamespaces == \E k \in Accounts : \E rs \in ListedFor(k) : Cycle(k, rs)

\* Cycles for two accounts against one database file.
SpecNamespaces == InitNamespaces /\ [][NextNamespaces]_vars

\* ------------------------------------------- a remote that never gives in
\* A rate-limit refusal whose reset instant is already past: sleep_for is
\* max(0, reset_ts - now + 1), so from the second refusal on the sleep is 0.
StaleReset == Some(0)
StaleRateLimit == Response(403, Some("0"), StaleReset, NoBody)

\* Every answer but a rate-limit refusal with a reset still to come, and the
\* stale refusal.
EndlessResponses(p, t) ==
    { resp \in Responses(p, t) : ~IsRateLimit(resp) } \cup { StaleRateLimit }

EndlessBudget ==
    [ transient |-> MaxRateLimits, rate_limit |-> MaxRateLimits, pages |-> MaxPages,
      total |-> MaxPages + MaxRateLimits ]

\* The remote is never short of rate-limit refusals: nothing in _request_json
\* counts them.
Replenish ==
    /\ budget.rate_limit < EndlessBudget.rate_limit
    /\ budget' = [budget EXCEPT !.rate_limit = EndlessBudget.rate_limit,
                                !.total = EndlessBudget.total]
    /\ last' = NoAnswer
    /\ UNCHANGED <<permits, holder, pc, kind, backoff, wake, page, items, served,
                   requested, retries, rlUntil, active, observed, now, storageVars, moreVars>>

OnePaginate == [ t \in Tasks |-> IF t = 1 THEN {"paginate"} ELSE {} ]

InitEndless == InitStorage /\ InitClientWith(OnePaginate, EndlessBudget, FALSE) /\ InitMore

\* The steps of the coroutine, the remote and the clock.
ClientStep ==
    \/ \E t \in Tasks, k \in Kinds : Start(t, k)
    \/ \E t \in Tasks : Send(t)
    \/ \E t \in Tasks : \E resp \in EndlessResponses(page[t], now) : Respond(t, resp)
    \/ \E t \in Tasks : Wake(t)
    \/ Tick

NextEndless == ClientStep \/ Replenish

\* One pagination against a remote that may refuse for ever. The event loop
\* runs a coroutine that can run, every request is answered or times out, and
\* the clock advances: weak fairness of the client's steps.
SpecEndless == InitEndless /\ [][NextEndless]_vars /\ WF_vars(ClientStep)

\* ------------------------------------------- progress under contention
\* Every task has one logical request to make.
AllRequest == [ t \in Tasks |-> {"request"} ]

\* The remote gives in: over all requests it refuses as many times as there
\* are permits, once of them for the rate limit, so that every permit can be
\* held by a sleeping request at the same time.
ProgressBudget ==
    [ transient |-> Concurrency - 1, rate_limit |-> 1, pages |-> 0,
      total |-> Concurrency ]

\* The answers of such a remote: a 200 with a JSON body, a transient status, or
\* a rate-limit refusal with its reset instant.
ProgressResponses(p, t) ==
    { resp \in Responses(p, t) :
        \/ IsRateLimit(resp)
        \/ IsTransient(resp)
        \/ ~resp.timeout /\ resp.status = 200 /\ resp.body.type = "array" }

\* asyncio.gather has started every coroutine of the batch: each is in
\* _request_json, about to enter `async with self.semaphore`.
InitProgress ==
    /\ InitStorage
    /\ InitMore
    /\ permits = Concurrency
    /\ holder = {}
    /\ pc = [ t \in Tasks |-> "acquire" ]
    /\ kind = [ t \in Tasks |-> "request" ]
    /\ backoff = [ t \in Tasks |-> BackoffStart ]
    /\ wake = [ t \in Tasks |-> 0 ]
    /\ page = [ t \in Tasks |-> 1 ]
    /\ items = [ t \in Tasks |-> <<>> ]
    /\ served = [ t \in Tasks |-> <<>> ]
    /\ requested = [ t \in Tasks |-> <<>> ]
    /\ retries = [ t \in Tasks |-> 0 ]
    /\ rlUntil = 0
    /\ last = NoAnswer
    /\ budget = ProgressBudget
    /\ active = AllRequest
    /\ observed = FALSE

ProgressStep ==
    \/ \E t \in Tasks : Send(t)
    \/ \E t \in Tasks : \E resp \in ProgressResponses(page[t], now) : Respond(t, resp)
    \/ \E t \in Tasks : Wake(t)
    \/ Tick

\* More logical requests than permits, against a remote that gives in. The
\* event loop runs a coroutine that can run, every request is answered and
\* the clock advances: weak fairness of the steps.
SpecProgress == InitProgress /\ [][ProgressStep]_vars /\ WF_vars(ProgressStep)

\* ------------------------------------------------------------------ claims

\* C1: after any sequence of upsert_repositories calls the repositories table
\* holds exactly one row per repository identifier upserted so far (and none for
\* the others), and that row carries the field values of the identifier's
\* latest upsert.
C1_OneRowLatestValues ==
    \A id \in RepoIds :
        LET rows == { row \in repositories : row.repo_id = id }
        IN  IF id \in DOMAIN latest
            THEN /\ Cardinality(rows) = 1
                 /\ \A row \in rows :
                      /\ row.full_name = latest[id].full_name
                      /\ row.stargazers_count = latest[id].stargazers_count
                      /\ row.forks_count = latest[id].forks_count
                      /\ row.language = latest[id].language
                      /\ row.private = 1 <=> latest[id].private
                      /\ row.license = latest[id].license
            ELSE rows = {}

\* C1's case: both identifiers are stored and both were upserted again with
\* changed fields.
C1_Witness ==
    /\ changed = RepoIds
    /\ Cardinality(repositories) = Cardinality(RepoIds)
    /\ lastOp = "upsert_repositories"

\* The aggregates table without its computation timestamps, in rowid order.
ValueRows(table) ==
    [ i \in 1..Len(table) |->
        [ metric |-> table[i].metric, key |-> table[i].key,
          value |-> table[i].value, extra_json |-> table[i].extra_json ] ]

\* How many rows of the table carry the values r.
RowCount(table, r) ==
    Cardinality({ i \in 1..Len(table) : ValueRows(table)[i] = r })

\* C2: compute_aggregates run again with no write in between leaves the
\* aggregates table with the same rows (metric, sub-key, value, payload), each as
\* many times, as the first run left; only the computation timestamps may differ.
C2_ComputeTwiceSameRows ==
    [][ (lastOp = "compute_aggregates" /\ lastOp' = "compute_aggregates")
          => \A i \in 1..Len(aggregates') :
                RowCount(aggregates', ValueRows(aggregates')[i])
                  = RowCount(aggregates, ValueRows(aggregates')[i]) ]_vars

\* C3: the aggregates table holds at most one row per (metric, sub-key) pair,
\* the scalar metrics whose sub-key is absent included.
C3_OneRowPerMetricKey ==
    \A i, j \in 1..Len(aggregates) :
        (aggregates[i].metric = aggregates[j].metric
           /\ aggregates[i].key = aggregates[j].key) => i = j

\* The requests whose physical HTTP call is on the wire.
InFlight == { t \in Tasks : pc[t] = "inflight" }

\* C4: under any interleaving of the logical requests, the number of physical
\* HTTP requests in flight on one client never exceeds the concurrency cap.
C4_InFlightWithinCap ==
    /\ Cardinality(InFlight) <= Concurrency
    /\ InFlight \subseteq holder
    /\ permits >= 0
    /\ permits + Cardinality(holder) = Concurrency

\* C4's case: the cap is reached and one more request waits for a permit.
C4_Witness ==
    /\ Cardinality(InFlight) = Concurrency
    /\ \E t \in Tasks : pc[t] = "acquire"

\* C5: a request holds a permit only while its physical HTTP call runs; it holds
\* none while it sleeps for backoff or waits for a rate-limit reset.
C5_NoPermitWhileSleeping ==
    \A t \in Tasks : Sleeping(t) => t \notin holder

\* C6: after a rate-limit refusal announcing the reset instant T, no request of
\* any logical operation is sent on the client before the clock reaches T.
C6_NoSendBeforeReset ==
    [][ \A t \in Tasks :
          (pc[t] = "acquire" /\ pc'[t] = "inflight") => now >= rlUntil ]_vars

\* C7: every 429, 502, 503 or 504 answer is retried and not surfaced, and the
\* sleep before the k-th such retry of a request is min(2^(k-1), 30) seconds,
\* which lies in 1..30.
C7_TransientRetriedWithBackoff ==
    /\ (last.outcome # "none" /\ IsTransient(last.resp))
          => /\ last.outcome = "sleep_bo"
             /\ pc[last.task] = "sleep_bo"
             /\ wake[last.task] = now + last.slept
    /\ last.outcome = "sleep_bo"
          => /\ IsTransient(last.resp)
             /\ last.attempt >= 1
             /\ last.slept = Min(2 ^ (last.attempt - 1), 30)
             /\ last.slept \in 1..30

\* C7's case: the seventh transient answer in a row, slept for at the cap.
C7_Witness ==
    /\ last.outcome = "sleep_bo"
    /\ last.attempt = 7
    /\ last.slept = 30

\* The answers C8 speaks of: not 2xx, not a rate-limit 403, not transient.
OtherNon2xx(resp) ==
    /\ ~resp.timeout
    /\ resp.status \notin 200..299
    /\ ~IsRateLimit(resp)
    /\ ~IsTransient(resp)

\* C8: any non-2xx answer other than a rate-limit 403 and other than
\* 429/502/503/504 makes the request fail at once: no sleep, no retry.
C8_OtherNon2xxRaises ==
    (last.outcome # "none" /\ OtherNon2xx(last.resp))
        => last.outcome = "raise" /\ pc[last.task] = "raised"

\* C9: a physical request that times out is retried with the capped backoff
\* and the timeout is not surfaced to the caller.
C9_TimeoutRetried ==
    (last.outcome # "none" /\ last.resp.timeout)
        => last.outcome = "sleep_bo" /\ pc[last.task] # "raised"

\* What C10 says a served page contributes: an array its records, an object its
\* `items`, or nothing when `items` is missing.
Contribution(d, p) ==
    IF d.type \in {"array", "object"} /\ ~IsNone(d.count)
    THEN Records(p, Val(d.count)) ELSE <<>>

RECURSIVE ConcatPages(_, _)
ConcatPages(pages, n) ==
    IF n = 0 THEN <<>>
    ELSE ConcatPages(pages, n - 1) \o Contribution(pages[n], n)

RECURSIVE SumCounts(_, _)
SumCounts(pages, n) ==
    IF n = 0 THEN 0
    ELSE SumCounts(pages, n - 1) + Len(Contribution(pages[n], n))

\* C10: the paginator asks for pages 1, 2, 3, ... in order with page size 100,
\* stops at the first page that yields no record, and returns the earlier pages'
\* records concatenated in request order.
C10_PaginateConcatenates ==
    /\ \A t \in Tasks :
         (kind[t] = "paginate" /\ pc[t] \notin {"idle", "returned", "raised"})
            => requested[t] = [ i \in 1..page[t] |-> [ page |-> i, per_page |-> 100 ] ]
    /\ (last.kind = "paginate" /\ ~IsNone(last.result))
         => LET n == Len(last.served)
            IN  /\ n >= 1
                /\ last.requested = [ i \in 1..n |-> [ page |-> i, per_page |-> 100 ] ]
                /\ Contribution(last.served[n], n) = <<>>
                /\ \A i \in 1..(n - 1) : Contribution(last.served[i], i) # <<>>
                /\ Val(last.result) = ConcatPages(last.served, n - 1)
                /\ Len(Val(last.result)) = SumCounts(last.served, n - 1)

\* C10's case: a short page, then an object page, then an exactly full page,
\* then the empty page that ends the pagination.
C10_Witness ==
    /\ last.kind = "paginate"
    /\ ~IsNone(last.result)
    /\ Len(last.served) = 4
    /\ last.served[1] = [ type |-> "array", count |-> Some(1) ]
    /\ last.served[2].type = "object"
    /\ last.served[3] = [ type |-> "array", count |-> Some(PerPage) ]
    /\ Len(Val(last.result)) = PerPage + 2

\* C12: whatever the order in which the per-repository fetches complete,
\* fetch_and_store holds exactly one result per listed repository, in the order
\* of the list, and each result pairs the repository's id with the languages
\* (and contributors, when enabled) answered for that same repository.
C12_OneResultPerRepository ==
    fpc = "done" =>
      /\ Len(results) = Len(repoList)
      /\ \A i \in 1..Len(repoList) :
           /\ results[i].repo_id = repoList[i].id
           /\ fetched[i].asked = repoList[i].full_name
           /\ results[i].languages = fetched[i].languages
           /\ \A j \in 1..Len(results[i].languages) :
                results[i].languages[j].bytes = NameRank(repoList[i].full_name)
           /\ IF cfg.include_contributors
              THEN /\ ~IsNone(results[i].contributors)
                   /\ Len(Val(results[i].contributors)) = Len(fetched[i].contributors)
                   /\ \A j \in 1..Len(fetched[i].contributors) :
                        /\ Val(results[i].contributors)[j].login
                             = fetched[i].contributors[j].login
                        /\ Val(results[i].contributors)[j].contributions
                             = IF IsNone(fetched[i].contributors[j].contributions)
                               THEN 0
                               ELSE NameRank(repoList[i].full_name)
              ELSE IsNone(results[i].contributors)

\* C12's case: two different repositories with languages and contributors, the
\* second one's fetch completing first.
C12_Witness ==
    /\ fpc = "done"
    /\ cfg.include_contributors
    /\ Len(repoList) >= 2
    /\ repoList[1].id # repoList[2].id
    /\ completed[1] = 2
    /\ \A i \in 1..2 : results[i].languages # <<>> /\ results[i].contributors # Some(<<>>)

\* The identifiers of the repositories stored.
StoredIds == { row.repo_id : row \in repositories }

\* A dependent batch has a record that cannot be written: its integer field
\* is missing, or its repository is not stored.
BatchFails(its, op) ==
    \E i \in 1..Len(its) : RaisesOf(op, its[i]) \/ its[i].repo_id \notin StoredIds

\* A dependent table after every record of the batch is applied: each key of
\* the batch holds the value of the last record that names it.
AllApplied(table, its, op) ==
    LET keys == { RowOf(op, its[i]).key : i \in 1..Len(its) }
        lastOf(k) == CHOOSE i \in 1..Len(its) :
                        /\ RowOf(op, its[i]).key = k
                        /\ \A j \in (i + 1)..Len(its) : RowOf(op, its[j]).key # k
    IN  [ k \in DOMAIN table \cup keys |->
            IF k \in keys THEN RowOf(op, its[lastOf(k)]).val ELSE table[k] ]

\* The repositories table after every record of the batch is applied.
AllReposApplied(table, batch) ==
    LET ids == { batch[i].id : i \in 1..Len(batch) }
        lastOf(id) == CHOOSE i \in 1..Len(batch) :
                         /\ batch[i].id = id
                         /\ \A j \in (i + 1)..Len(batch) : batch[j].id # id
    IN  { row \in table : row.repo_id \notin ids }
        \cup { RepoRow(batch[lastOf(id)]) : id \in ids }

\* The five tables the bulk upserts write.
bulkTables == <<repositories, languages, contributors, commit_activity, pull_requests>>

\* C13: each bulk upsert is atomic: when a record of the batch cannot be
\* written the call raises and the five tables keep exactly their rows;
\* otherwise every record of the batch is applied.
C13_BulkUpsertAtomic ==
    [][ /\ lastOp' \in {"upsert_repositories", "upsert_repositories raised"} =>
             \A batch \in SeqsUpTo(BulkRepoRecords, MaxBatch) :
               upsert_repositories(batch) =>
                 IF \E i \in 1..Len(batch) : batch[i].description = "dict"
                 THEN lastOp' = "upsert_repositories raised" /\ UNCHANGED bulkTables
                 ELSE /\ lastOp' = "upsert_repositories"
                      /\ repositories' = AllReposApplied(repositories, batch)
        /\ lastOp' \in {"upsert_languages", "upsert_languages raised"} =>
             \A its \in SeqsUpTo(LanguageEntries, MaxBatch) :
               upsert_languages(its) =>
                 IF BatchFails(its, "upsert_languages")
                 THEN lastOp' = "upsert_languages raised" /\ UNCHANGED bulkTables
                 ELSE /\ lastOp' = "upsert_languages"
                      /\ languages' = AllApplied(languages, its, "upsert_languages")
        /\ lastOp' \in {"upsert_contributors", "upsert_contributors raised"} =>
             \A its \in SeqsUpTo(ContributorEntries, MaxBatch) :
               upsert_contributors(its) =>
                 IF BatchFails(its, "upsert_contributors")
                 THEN lastOp' = "upsert_contributors raised" /\ UNCHANGED bulkTables
                 ELSE /\ lastOp' = "upsert_contributors"
                      /\ contributors' = AllApplied(contributors, its, "upsert_contributors")
        /\ lastOp' \in {"upsert_commit_activity", "upsert_commit_activity raised"} =>
             \A its \in SeqsUpTo(CommitEntries, MaxBatch) :
               upsert_commit_activity(its) =>
                 IF BatchFails(its, "upsert_commit_activity")
                 THEN lastOp' = "upsert_commit_activity raised" /\ UNCHANGED bulkTables
                 ELSE /\ lastOp' = "upsert_commit_activity"
                      /\ commit_activity' = AllApplied(commit_activity, its, "upsert_commit_activity")
        /\ lastOp' \in {"upsert_pull_requests", "upsert_pull_requests raised"} =>
             \A its \in SeqsUpTo(PullRequestEntries, MaxBatch) :
               upsert_pull_requests(its) =>
                 IF BatchFails(its, "upsert_pull_requests")
                 THEN lastOp' = "upsert_pull_requests raised" /\ UNCHANGED bulkTables
                 ELSE /\ lastOp' = "upsert_pull_requests"
                      /\ pull_requests' = AllApplied(pull_requests, its, "upsert_pull_requests")
      ]_vars

\* C13's case: a batch failed after one of its rows had been written, and the
\* table holds the rows of earlier calls only.
C13_Witness ==
    /\ lastOp = "upsert_languages raised"
    /\ undone > 0
    /\ languages = <<1, "Python">> :> 1

\* C14: every language, contributor, commit-activity and pull-request row
\* references a repository stored in the repositories table.
C14_DependentsReferenceRepository ==
    /\ \A k \in DOMAIN languages : k[1] \in StoredIds
    /\ \A k \in DOMAIN contributors : k[1] \in StoredIds
    /\ \A k \in DOMAIN commit_activity : k[1] \in StoredIds
    /\ \A k \in DOMAIN pull_requests : k[1] \in StoredIds

\* C14's case: a pull-request batch for an unknown repository was rejected
\* after a row for a stored one, and all four tables hold rows.
C14_Witness ==
    /\ lastOp = "upsert_pull_requests raised"
    /\ undone > 0
    /\ DOMAIN languages # {}
    /\ DOMAIN contributors # {}
    /\ DOMAIN commit_activity # {}
    /\ DOMAIN pull_requests # {}

\* C11: every call of the paginator eventually returns or fails, whatever the
\* endpoint serves.
C11_PaginateTerminates ==
    \A t \in Tasks :
        (kind[t] = "paginate" /\ pc[t] = "acquire")
            ~> (pc[t] \in {"returned", "raised"})

\* C15: for two cycles run against the same database file for two different
\* target accounts, each cycle uses the namespace of its own target only: the
\* namespaces of different targets differ, and the total_repos a cycle stores
\* counts the repositories listed for its own account and no other.
C15_CyclesKeepToOwnNamespace ==
    \A i \in DOMAIN ran :
        /\ \A j \in DOMAIN ran :
               targets[ran[i].account] # targets[ran[j].account]
                   => ran[i].ns # ran[j].ns
        /\ ran[i].total_repos =
               Cardinality(UNION { ran[j].listed :
                                     j \in { m \in 1..i : ran[m].account = ran[i].account } })

\* The aggregate rows of a metric, and the one written last.
RowsOf(metric) == { i \in 1..Len(aggregates) : aggregates[i].metric = metric }
LastOf(metric) ==
    aggregates[CHOOSE i \in RowsOf(metric) : \A j \in RowsOf(metric) : j <= i]

\* The integer a nullable column adds to a sum.
OrZero(v) == IF IsNone(v) THEN 0 ELSE Val(v)

RECURSIVE StarsSum(_)
StarsSum(rows) ==
    IF rows = {} THEN 0
    ELSE LET row == CHOOSE x \in rows : TRUE
         IN  OrZero(row.stargazers_count) + StarsSum(rows \ {row})

RECURSIVE ForksSum(_)
ForksSum(rows) ==
    IF rows = {} THEN 0
    ELSE LET row == CHOOSE x \in rows : TRUE
         IN  OrZero(row.forks_count) + ForksSum(rows \ {row})

\* The repositories stored now whose primary language is l.
StoredWith(l) == { row \in repositories : row.language = l }
StoredLanguages == { row.language : row \in repositories } \ { None }

\* C16: after compute_aggregates, whatever upserts and computations came
\* before, the sub-keys of the stars_by_language rows, and of the
\* forks_by_language rows, are exactly the non-null primary languages of the
\* repositories stored now, and each row's value is the sum of the stargazer
\* (fork) counts of the stored repositories with that language.
C16_LanguageRowsMatchStorage ==
    lastOp = "compute_aggregates" =>
        /\ { aggregates[i].key : i \in RowsOf("stars_by_language") } = StoredLanguages
        /\ { aggregates[i].key : i \in RowsOf("forks_by_language") } = StoredLanguages
        /\ \A i \in RowsOf("stars_by_language") :
               aggregates[i].value = StarsSum(StoredWith(aggregates[i].key))
        /\ \A i \in RowsOf("forks_by_language") :
               aggregates[i].value = ForksSum(StoredWith(aggregates[i].key))

\* C17: no stars_by_language or forks_by_language row has an absent language
\* as its sub-key, whatever repositories were stored when compute_aggregates ran.
C17_NoNullLanguageKey ==
    \A i \in RowsOf("stars_by_language") \cup RowsOf("forks_by_language") :
        ~IsNone(aggregates[i].key)

\* C17's case: compute_aggregates has just run over a repository without a
\* primary language and one with a language, and wrote the rows of the latter.
C17_Witness ==
    /\ lastOp = "compute_aggregates"
    /\ \E row \in repositories : IsNone(row.language)
    /\ \E row \in repositories : ~IsNone(row.language)
    /\ RowsOf("stars_by_language") # {}
    /\ RowsOf("forks_by_language") # {}

\* Descending stars, then ascending full name.
TopSorted(payload) ==
    \A a, b \in 1..Len(payload) :
        a < b => \/ payload[a].stars > payload[b].stars
                 \/ /\ payload[a].stars = payload[b].stars
                    /\ NameRank(payload[a].full_name) <= NameRank(payload[b].full_name)

\* C18: for every set of stored repositories, those without a star count
\* included, compute_aggregates writes a top_repos_by_stars row whose payload
\* has min(10, number of repositories) entries, sorted by descending stars and
\* then ascending full name, and whose value is the payload's length.
C18_TopReposPayload ==
    lastOp = "compute_aggregates" =>
        /\ RowsOf("top_repos_by_stars") # {}
        /\ LET row == LastOf("top_repos_by_stars")
               payload == Val(row.extra_json).items
           IN  /\ Len(payload) = Min(TopLimit, Cardinality(repositories))
               /\ { payload[i].full_name : i \in 1..Len(payload) }
                    \subseteq { r.full_name : r \in repositories }
               /\ TopSorted(payload)
               /\ row.value = Len(payload)

\* C19: after compute_aggregates, total_repos is the number of repository
\* rows and total_stars the sum of their stargazer counts, an absent count
\* adding zero.
C19_TotalsMatchStorage ==
    lastOp = "compute_aggregates" =>
        /\ RowsOf("total_repos") # {} /\ RowsOf("total_stars") # {}
        /\ \A i \in RowsOf("total_repos") :
               aggregates[i].value = Cardinality(repositories)
        /\ \A i \in RowsOf("total_stars") :
               aggregates[i].value = StarsSum(repositories)

\* The week-starts stored, and the commits of one week over all repositories.
StoredWeeks == { k[2] : k \in DOMAIN commit_activity }

RECURSIVE CommitsIn(_)
CommitsIn(keys) ==
    IF keys = {} THEN 0
    ELSE LET k == CHOOSE x \in keys : TRUE
         IN  commit_activity[k] + CommitsIn(keys \ {k})

\* The n most recent of the weeks.
RECURSIVE MostRecent(_, _)
MostRecent(weeks, n) ==
    IF n = 0 \/ weeks = {} THEN {}
    ELSE LET w == CHOOSE x \in weeks : \A y \in weeks : y <= x
         IN  {w} \cup MostRecent(weeks \ {w}, n - 1)

\* C20: when commit-activity rows exist, compute_aggregates writes a
\* dora_commits_by_week row whose payload has one entry for each of the
\* min(26, number of week-starts) most recent week-starts, each with the sum of
\* that week's commits over all repositories, oldest first, and whose value is
\* the number of entries.
C20_CommitsByWeek ==
    (lastOp = "compute_aggregates" /\ commit_activity # EmptyTable) =>
        /\ RowsOf("dora_commits_by_week") # {}
        /\ LET row == LastOf("dora_commits_by_week")
               payload == Val(row.extra_json).items
               recent == MostRecent(StoredWeeks, WeeksLimit)
           IN  /\ Len(payload) = Min(WeeksLimit, Cardinality(StoredWeeks))
               /\ { payload[i].week_start : i \in 1..Len(payload) } = recent
               /\ \A i \in 1..Len(payload) :
                      payload[i].commits =
                          CommitsIn({ k \in DOMAIN commit_activity :
                                        k[2] = payload[i].week_start })
               /\ \A a, b \in 1..Len(payload) :
                      a < b => payload[a].week_start < payload[b].week_start
               /\ row.value = Len(payload)

\* The label the payload gives a state: "unknown" for an absent one.
LabelOf(state) == IF IsNone(state) THEN "unknown" ELSE Val(state)
StoredLabelled(label) ==
    { k \in DOMAIN pull_requests : LabelOf(pull_requests[k].state) = label }

\* C21: when pull-request rows exist, compute_aggregates writes a
\* dora_prs_total row whose value is the number of stored pull-request rows,
\* whatever their states (absent, "unknown" and the empty string included), and
\* whose payload maps each state label, "unknown" for an absent state, to the
\* number of rows in that state, so that the counts add up to the value.
C21_PrTotals ==
    (lastOp = "compute_aggregates" /\ pull_requests # EmptyTable) =>
        /\ RowsOf("dora_prs_total") # {}
        /\ LET row == LastOf("dora_prs_total")
               payload == Val(row.extra_json).items
           IN  /\ row.value = Cardinality(DOMAIN pull_requests)
               /\ { payload[i].key : i \in 1..Len(payload) }
                    = { LabelOf(pull_requests[k].state) : k \in DOMAIN pull_requests }
               /\ \A i \in 1..Len(payload) :
                      payload[i].val = Cardinality(StoredLabelled(payload[i].key))
               /\ DictSum(payload) = row.value

\* C25: compute_aggregates writes a dora_commits_by_week row only if the
\* commit-activity table holds a row, and a dora_prs_total row only if the
\* pull-request table holds one: while a table is empty (rows are never
\* deleted, so it has been empty all along) its metric has no row.
C25_DoraRowsOnlyForStoredData ==
    /\ commit_activity = EmptyTable => RowsOf("dora_commits_by_week") = {}
    /\ pull_requests = EmptyTable => RowsOf("dora_prs_total") = {}

\* Does the batch carry an entry for this key of the table?
InNewData(its, op, k) == \E i \in 1..Len(its) : RowOf(op, its[i]).key = k

\* The value the batch's last entry for this key carries.
NewValue(its, op, k) ==
    LET i == CHOOSE n \in 1..Len(its) :
                /\ RowOf(op, its[n]).key = k
                /\ \A j \in (n + 1)..Len(its) : RowOf(op, its[j]).key # k
    IN  RowOf(op, its[i]).val

\* Overwrite without pruning, of one table by one batch.
OverwritesOnly(before, after, its, op) ==
    /\ \A k \in DOMAIN before : k \in DOMAIN after
    /\ \A i \in 1..Len(its) : RowOf(op, its[i]).key \in DOMAIN after
    /\ \A k \in DOMAIN after :
         IF InNewData(its, op, k)
         THEN after[k] = NewValue(its, op, k)
         ELSE k \in DOMAIN before /\ after[k] = before[k]

\* C28: a successful upsert_languages or upsert_contributors overwrites
\* without pruning: every key of the new data holds the new value, every
\* stored key absent from the new data (of the same repository or of another
\* one) keeps its row unchanged, and the other table is untouched.
C28_ExtrasOverwriteWithoutPruning ==
    [][ /\ lastOp' = "upsert_languages" =>
             \A its \in ExtrasLanguageBatches :
               upsert_languages(its) =>
                 /\ OverwritesOnly(languages, languages', its, "upsert_languages")
                 /\ contributors' = contributors
        /\ lastOp' = "upsert_contributors" =>
             \A its \in ExtrasContributorBatches :
               upsert_contributors(its) =>
                 /\ OverwritesOnly(contributors, contributors', its, "upsert_contributors")
                 /\ languages' = languages ]_vars

\* C28 witness: after a successful upsert_languages the Python row of
\* repository 1 holds the second value while the JavaScript row of the same
\* repository and the row of repository 2, written by earlier calls, remain;
\* the contributors table shows the same for its logins.
C28_Witness ==
    /\ lastOp = "upsert_languages"
    /\ DOMAIN languages = {<<1, "Python">>, <<1, "JavaScript">>, <<2, "Python">>}
    /\ languages[<<1, "Python">>] = LanguageRow([ repo_id |-> 1, language |-> "Python", bytes |-> Some(2) ]).val
    /\ DOMAIN contributors = {<<1, "x">>, <<2, "x">>}
    /\ contributors[<<1, "x">>] = ContributorRow([ repo_id |-> 1, login |-> "x", contributions |-> Some(2) ]).val

\* The run of fetch_and_store is over and every fetch_repo_extras coroutine
\* returned its data.
EndedAllAnswered ==
    /\ repoList # <<>>
    /\ \A i \in 1..Len(repoList) : task[i] = "done"
    /\ fpc \notin {"gathering", "dora"}

\* C23: with include_dora set, at least one repository and every remote call
\* answered, the cycle runs to completion: a run that has ended is done, with
\* the aggregates computed unless they were to be skipped.
C23_DoraCycleCompletes ==
    (cfg.include_dora /\ EndedAllAnswered) =>
        /\ fpc = "done"
        /\ cfg.skip_aggregates \/ aggCalls > 0

\* C24: once a fetch_repo_extras coroutine of the batch has failed, the cycle
\* only fails: no coroutine goes on to a further request and no coroutine of
\* a later batch is started.
C24_FailureAbortsBatch ==
    [][ (fpc = "raising" \/ fpc = "failed") =>
          /\ fpc' \in {"raising", "failed"}
          /\ \A j \in 1..Len(repoList) :
               (task'[j] \in {"languages", "contributors"} => task'[j] = task[j])
      ]_vars

\* The rows of the aggregates table without their computation timestamps.
Untimed(agg) == [ i \in 1..Len(agg) |-> [agg[i] EXCEPT !.computed_at = 0] ]

\* C22: when a later invocation of the cycle has completed against the same
\* remote data, whether the first one completed or aborted, every table holds
\* the rows one single complete run leaves, computation timestamps apart.
C22_RerunEqualsSingleRun ==
    (ran # <<>> /\ fpc = "done") =>
        /\ repositories = AllReposApplied({}, repoList)
        /\ languages = AllApplied(EmptyTable, LanguageEntriesOf(results), "upsert_languages")
        /\ contributors = IF cfg.include_contributors
                          THEN AllApplied(EmptyTable, ContributorEntriesOf(results),
                                          "upsert_contributors")
                          ELSE EmptyTable
        /\ commit_activity = EmptyTable
        /\ pull_requests = EmptyTable
        /\ Untimed(aggregates) =
             IF cfg.skip_aggregates THEN <<>>
             ELSE Untimed(ComputeAggregates(<<>>, ReposById(repositories),
                                            commit_activity, pull_requests, now))

\* The week entries of the answer, each with its week start as a UTC date.
Converted(rid, weeks) ==
    [ n \in 1..Len(weeks) |->
        [ repo_id |-> rid, week_start |-> UtcDate(weeks[n].week),
          total |-> Val(weeks[n].total) ] ]

HoursOf(text) ==
    CASE text = "2024-01-01T12:00:00Z" -> 12
      [] text = "2024-01-02" -> 24
      [] text = "2024-01-02T00:00:00+12:00" -> 12
      [] text = "2024-01-02T06:00:00Z" -> 30

\* The records without those created strictly before the minimum date.
RECURSIVE NotBefore(_, _)
NotBefore(prs, since) ==
    IF prs = <<>> THEN <<>>
    ELSE (IF /\ ~IsNone(Head(prs).created_at)
             /\ HoursOf(Val(Head(prs).created_at)) < HoursOf(since)
          THEN <<>> ELSE <<Head(prs)>>)
         \o NotBefore(Tail(prs), since)

C29_ProgressUnderContention ==
    <>[](/\ \A t \in Tasks : pc[t] = "returned"
         /\ holder = {}
         /\ permits = Concurrency)

\* C29 witness: every permit is held by a sleeping request, one for backoff
\* and one for a rate-limit reset, while another request waits for a permit.
C29_Witness ==
    /\ permits = 0
    /\ \A t \in holder : Sleeping(t)
    /\ \E t \in holder : pc[t] = "sleep_bo"
    /\ \E t \in holder : pc[t] = "sleep_rl"
    /\ \E t \in Tasks : pc[t] = "acquire"

====
